---------------------------- MODULE Spec2Model ----------------------------
(***************************************************************************)
(* A model of ForgeXBot: the alert de-duplication cache                    *)
(* (src/src/utils/alert_cache.py), the alert loop of the bot (src/main.py) *)
(* and the pattern scan pipeline (src/src/patterns/pattern_manager.py,     *)
(* src/src/analysis/enhanced_pattern_manager.py).                           *)
(*                                                                         *)
(* Time is counted in whole ticks; prices and strengths are integers       *)
(* (strengths in thousandths, so 0.5 is 500 and the 0.7 penalty is exact). *)
(***************************************************************************)
EXTENDS Integers, Sequences, FiniteSets, TLC

VARIABLES
    now,          \* datetime.now(), in ticks
    pc,           \* the bot process: "idle" (between passes), "processing", "down"
    cache,        \* AlertCache.cache: key -> record
    store,        \* the file logs/alert_cache.json
    queue,        \* process_patterns: the filtered patterns still to be processed
    alerts_sent,  \* process_patterns: its counter
    lastAlert,    \* history: key -> time of the latest alert sent for it
    last_op,      \* history: the cache operation of the latest step, if it
                  \* had one, how its I/O went, whether it raised, whether
                  \* it overwrote a record
    candles,      \* the window handed to a scan (None, empty or a frame)
    analysis,     \* EnhancedPatternManager: its three filtering switches
    scan_pc,      \* the scan: "ready", or "done" once a scan has returned
    detected,     \* what the scan returned
    scan_note,    \* history: the entry point called, the path it took, whether
                  \* it raised, the step that failed
    pattern_a,    \* a signal, before and after enrichment
    pattern_b,    \* another signal
    key_a,        \* the key computed for pattern_a when it was detected
    fn_in,        \* the arguments of one call of a function of the analysis
    fn_out,       \* what the call returned
    last_candle_times,  \* PriceActionBot: key -> time of the latest closed
                        \* candle seen for the pair
    gate_pc,      \* scan_for_closed_candles: the symbol and the timeframe its
                  \* loops have reached, 0 and 0 when it is not running
    scanned,      \* history: key -> candle time -> how many times
                  \* is_new_candle was true for it
    failed,       \* history: the key whose candle was the latest to get no
                  \* scan, for lack of data or an exception, until a newer
                  \* candle of the pair is scanned
    gate_op       \* history: what the latest step of the loops met

botVars == <<now, pc, cache, store, queue, alerts_sent, lastAlert, last_op>>
scanVars == <<candles, analysis, scan_pc, detected, scan_note>>
keyVars == <<pattern_a, pattern_b, key_a>>
fnVars == <<fn_in, fn_out>>
gateVars == <<last_candle_times, gate_pc, scanned, failed, gate_op>>
vars == <<botVars, scanVars, keyVars, fnVars, gateVars>>

-----------------------------------------------------------------------------
(* Bounds of the model *)

\* cooldown_seconds, in ticks
Cooldown == 2
\* patterns handed to one process_patterns call
MaxBatch == 2

MaxTime == 2 * Cooldown + 1
NoTime == 0 - 1

-----------------------------------------------------------------------------
(* Signals and the alert key *)

\* config patterns.min_strength of process_patterns, in thousandths
MinStrength == 500

\* The patterns the bot's scans hand to process_patterns: two kinds on one
\* pair, above the strength filter, and one of them below it too.
BotSignals ==
    {p \in [symbol : {"EURUSD"}, timeframe : {"H1"},
            pattern : {"Hammer", "Doji"}, candle_close : {12345},
            candle_time : {1}, strength : {400, 600}] :
        p.pattern = "Doji" \/ p.strength = 600}

\* str(x) of a price: the text of the number
Str(x) == <<"str", x>>

\* datetime.isoformat / datetime.fromisoformat
IsoFormat(t) == <<"iso", t>>
FromIsoFormat(s) == s[2]

\* The key with the strength in it.
GenerateAlertKey_WithStrength(pattern) ==
    <<pattern.symbol, pattern.timeframe, pattern.pattern,
      Str(pattern.candle_close), pattern.strength>>

\* AlertCache._generate_alert_key: the md5 digest of
\* symbol|timeframe|pattern|str(candle_close), which stands here as the
\* joined parts themselves (md5 taken as collision free).
GenerateAlertKey(pattern) ==
    <<pattern.symbol, pattern.timeframe, pattern.pattern,
      Str(pattern.candle_close)>>

BotKeys == {GenerateAlertKey(p) : p \in BotSignals}

-----------------------------------------------------------------------------
(* AlertCache *)

EmptyCache == [k \in {} |-> 0]

Put(c, k, r) == [x \in (DOMAIN c) \cup {k} |-> IF x = k THEN r ELSE c[x]]

Age(c, k, t) == t - FromIsoFormat(c[k].timestamp)

AbsentStore == [state |-> "absent", data |-> EmptyCache]
CorruptStore == [state |-> "corrupt", data |-> EmptyCache]

\* How one file write can go: done; failed before the file was opened
\* (makedirs or open raised); failed after open(..., 'w') truncated the file
\* (json.dump raised); the process killed after the truncation.
IOReliable == {"ok"}
IOAll == {"ok", "fail_open", "fail_write", "crash"}
ReadReliable == {"ok"}
ReadAll == {"ok", "fail"}

\* _save_cache without its try/except.
SaveCache_NoCatch(c, st, io) ==
    [store |-> CASE io = "ok" -> [state |-> "ok", data |-> c]
                 [] io = "fail_open" -> st
                 [] OTHER -> CorruptStore,
     raised |-> io # "ok"]

\* AlertCache._save_cache: open(cache_file, 'w') truncates the file, then
\* json.dump writes the whole cache; an exception is logged and swallowed.
SaveCache(c, st, io) ==
    [store |-> CASE io = "ok" -> [state |-> "ok", data |-> c]
                 [] io = "fail_open" -> st
                 [] OTHER -> CorruptStore,
     raised |-> FALSE]

\* is_duplicate with <= for <.
IsDuplicate_Inclusive(c, pattern, t) ==
    LET key == GenerateAlertKey(pattern)
    IN  /\ key \in DOMAIN c
        /\ Age(c, key, t) <= Cooldown

\* AlertCache.is_duplicate
IsDuplicate(c, pattern, t) ==
    LET key == GenerateAlertKey(pattern)
    IN  /\ key \in DOMAIN c
        /\ Age(c, key, t) < Cooldown

\* add_alert without its call of _save_cache.
AddAlert_NoSave(c, st, pattern, t, io) ==
    LET key == GenerateAlertKey(pattern)
        c2 == Put(c, key, [timestamp |-> IsoFormat(t),
                           pattern |-> pattern.pattern,
                           symbol |-> pattern.symbol,
                           timeframe |-> pattern.timeframe])
    IN  [cache |-> c2, store |-> st, raised |-> FALSE]

\* AlertCache.add_alert
AddAlert(c, st, pattern, t, io) ==
    LET key == GenerateAlertKey(pattern)
        c2 == Put(c, key, [timestamp |-> IsoFormat(t),
                           pattern |-> pattern.pattern,
                           symbol |-> pattern.symbol,
                           timeframe |-> pattern.timeframe])
        sv == SaveCache(c2, st, io)
    IN  [cache |-> c2, store |-> sv.store, raised |-> sv.raised]

\* _clean_expired sweeping at one cooldown.
CleanExpired_OneCooldown(c, st, t, io) ==
    LET expired_keys == {k \in DOMAIN c : Age(c, k, t) > Cooldown}
        c2 == [k \in (DOMAIN c) \ expired_keys |-> c[k]]
        sv == SaveCache(c2, st, io)
    IN  IF expired_keys # {}
        THEN [cache |-> c2, store |-> sv.store, raised |-> sv.raised,
              saved |-> TRUE]
        ELSE [cache |-> c2, store |-> st, raised |-> FALSE, saved |-> FALSE]

\* AlertCache._clean_expired
CleanExpired(c, st, t, io) ==
    LET expired_keys == {k \in DOMAIN c : Age(c, k, t) > Cooldown * 2}
        c2 == [k \in (DOMAIN c) \ expired_keys |-> c[k]]
        sv == SaveCache(c2, st, io)
    IN  IF expired_keys # {}
        THEN [cache |-> c2, store |-> sv.store, raised |-> sv.raised,
              saved |-> TRUE]
        ELSE [cache |-> c2, store |-> st, raised |-> FALSE, saved |-> FALSE]

\* AlertCache.__init__ and _load_cache: rd is how reading the file goes.
LoadCache(st, t, rd, io) ==
    IF st.state = "absent"
    THEN [cache |-> EmptyCache, store |-> st, raised |-> FALSE,
          saved |-> FALSE]
    ELSE IF rd = "fail" \/ st.state = "corrupt"
    THEN [cache |-> EmptyCache, store |-> st, raised |-> FALSE,
          saved |-> FALSE]
    ELSE LET ce == CleanExpired(st.data, st, t, io)
         IN  IF ce.raised
             THEN [cache |-> EmptyCache, store |-> ce.store, raised |-> FALSE,
                   saved |-> ce.saved]
             ELSE ce

-----------------------------------------------------------------------------
(* The scan pipeline: PatternManager and EnhancedPatternManager *)

\* detectors enabled in config patterns.enabled
MaxDetectors == 3
MaxLevels == 3

\* The detectors PatternManager knows, in the order the configuration
\* enables them; the registry keeps that order.
PatternClasses ==
    <<"bullish_engulfing", "shooting_star", "doji", "hammer",
      "bearish_engulfing">>

Enabled == SubSeq(PatternClasses, 1, MaxDetectors)
EnabledNames == {Enabled[i] : i \in 1..Len(Enabled)}

\* get_required_candles of each detector
RequiredCandles(name) ==
    IF name \in {"bullish_engulfing", "bearish_engulfing"} THEN 2 ELSE 1

\* the 'pattern' and 'type' fields each detector puts in its result
PatternName(name) ==
    CASE name = "bullish_engulfing" -> "Bullish Engulfing"
      [] name = "bearish_engulfing" -> "Bearish Engulfing"
      [] name = "hammer" -> "Hammer"
      [] name = "shooting_star" -> "Shooting Star"
      [] OTHER -> "Doji"

PatternType(name) ==
    CASE name \in {"bullish_engulfing", "hammer"} -> "bullish"
      [] name \in {"bearish_engulfing", "shooting_star"} -> "bearish"
      [] OTHER -> "neutral"

\* A window of candles is None, an empty frame, or a frame of `len` candles
\* whose last candle closed at `close` at `time`; `detect` says what each
\* detector does on it: finds nothing, finds its pattern, or raises.
DetectOutcomes ==
    {[kind |-> "none"], [kind |-> "raise"], [kind |-> "hit", strength |-> 500]}

NoCandles == [kind |-> "None"]
EmptyFrame == [kind |-> "empty"]

Frames ==
    [kind : {"frame"}, len : {1, 49, 50}, close : {12345}, time : {1},
     detect : [EnabledNames -> DetectOutcomes]]

Windows == {NoCandles, EmptyFrame} \cup Frames

IsEmpty(c) == c.kind \in {"None", "empty"}

\* BasePattern.detect of the detector `name` on a frame
Detect(c, name) ==
    LET o == c.detect[name]
    IN  [raised |-> o.kind = "raise",
         found |-> o.kind = "hit",
         value |-> [pattern |-> PatternName(name),
                    type |-> PatternType(name),
                    candle_time |-> c.time,
                    candle_close |-> c.close,
                    strength |-> IF o.kind = "hit" THEN o.strength ELSE 0]]

\* the metadata scan_patterns adds to a detector's result
Tag(r, symbol, timeframe, name) ==
    [pattern |-> r.pattern, type |-> r.type, candle_time |-> r.candle_time,
     candle_close |-> r.candle_close, strength |-> r.strength,
     symbol |-> symbol, timeframe |-> timeframe, pattern_id |-> name]

BasicFields ==
    {"pattern", "type", "candle_time", "candle_close", "strength", "symbol",
     "timeframe", "pattern_id"}

RECURSIVE ScanLoop_Abort(_, _, _, _, _)
\* The loop of scan_patterns ended by the first detector that raises.
ScanLoop_Abort(c, symbol, timeframe, i, detected_patterns) ==
    IF i > Len(Enabled)
    THEN [raised |-> FALSE, value |-> detected_patterns]
    ELSE LET name == Enabled[i]
             r == Detect(c, name)
         IN  IF c.len < RequiredCandles(name)
             THEN ScanLoop_Abort(c, symbol, timeframe, i + 1, detected_patterns)
             ELSE IF r.raised
             THEN [raised |-> FALSE, value |-> detected_patterns]
             ELSE IF r.found
             THEN ScanLoop_Abort(c, symbol, timeframe, i + 1,
                      Append(detected_patterns,
                             Tag(r.value, symbol, timeframe, name)))
             ELSE ScanLoop_Abort(c, symbol, timeframe, i + 1, detected_patterns)

RECURSIVE ScanLoop(_, _, _, _, _)
\* PatternManager.scan_patterns, its loop over the registry from the i-th
\* detector on: a detector that raises is logged and passed over.
ScanLoop(c, symbol, timeframe, i, detected_patterns) ==
    IF i > Len(Enabled)
    THEN [raised |-> FALSE, value |-> detected_patterns]
    ELSE LET name == Enabled[i]
             r == Detect(c, name)
         IN  IF c.len < RequiredCandles(name)
             THEN ScanLoop(c, symbol, timeframe, i + 1, detected_patterns)
             ELSE IF r.raised
             THEN ScanLoop(c, symbol, timeframe, i + 1, detected_patterns)
             ELSE IF r.found
             THEN ScanLoop(c, symbol, timeframe, i + 1,
                      Append(detected_patterns,
                             Tag(r.value, symbol, timeframe, name)))
             ELSE ScanLoop(c, symbol, timeframe, i + 1, detected_patterns)

\* PatternManager.scan_patterns
ScanPatterns(c, symbol, timeframe) ==
    IF IsEmpty(c)
    THEN [raised |-> FALSE, value |-> <<>>]
    ELSE ScanLoop(c, symbol, timeframe, 1, <<>>)

\* TrendAnalyzer.ema_long_period, its default
EmaLongPeriod == 50
\* config patterns.min_enhanced_strength, its default, in thousandths
MinEnhancedStrength == 400

Max(a, b) == IF a > b THEN a ELSE b
Min(a, b) == IF a < b THEN a ELSE b
Abs(a) == IF a < 0 THEN 0 - a ELSE a

\* What the trend analyzer reads off the last two rows of a window with
\* its indicators: the two EMAs and the close of the last row, and the short
\* EMA of the row before. Here: rising, falling, and mixed signals.
EmaRising == [ema20 |-> 10005, ema50 |-> 9990, close |-> 10030, prev_ema20 |-> 10000]
EmaFalling == [ema20 |-> 9993, ema50 |-> 10010, close |-> 9980, prev_ema20 |-> 10000]
EmaMixed == [ema20 |-> 10005, ema50 |-> 10010, close |-> 10030, prev_ema20 |-> 10000]

\* What identify_trend_by_structure counts over the last 10 rows.
StructureRising == [higher_highs |-> 3, lower_highs |-> 0, higher_lows |-> 2, lower_lows |-> 0]
StructureFlat == [higher_highs |-> 0, lower_highs |-> 0, higher_lows |-> 0, lower_lows |-> 0]

\* What the analyzers make of a window. The trend analyzer raises or reads
\* the EMAs and the price structure; the SR analyzer raises, or finds the
\* window shorter than its lookback, or gives the nearest support and
\* resistance (0: None); the strength calculator raises inside its own try
\* or computes its three components.
TrendOutcomes ==
    {[kind |-> "raise"]} \cup
    [kind : {"ok"}, ema : {EmaRising, EmaFalling, EmaMixed},
     structure : {StructureRising, StructureFlat}]

SROutcomes ==
    {[kind |-> "raise"], [kind |-> "short"]} \cup
    [kind : {"ok"}, nearest_support : {0, 12330},
     nearest_resistance : {0, 12360}]

CalcOutcomes ==
    {[kind |-> "raise"]} \cup
    [kind : {"ok"}, body_strength : {200, 1000}, volume_strength : {200},
     volatility_strength : {200}]

\* analysis.reversal_pattern_names, its default
ReversalPatternNames ==
    {"hammer", "shooting_star", "bullish_engulfing", "bearish_engulfing"}

\* the context filtering settings of EnhancedPatternManager.__init__: three
\* switches and the list of reversal pattern names
AnalysisConfigs ==
    [enable_trend_filtering : BOOLEAN, enable_sr_filtering : BOOLEAN,
     allow_reversal_patterns : BOOLEAN,
     reversal_pattern_names : {ReversalPatternNames, {"hammer"}}]

\* The settings a scan is run under: every setting of the three switches,
\* with the default list of names.
ScanConfigs ==
    {cfg \in AnalysisConfigs : cfg.reversal_pattern_names = ReversalPatternNames}

DefaultAnalysis ==
    [enable_trend_filtering |-> TRUE, enable_sr_filtering |-> TRUE,
     allow_reversal_patterns |-> TRUE,
     reversal_pattern_names |-> ReversalPatternNames]

\* TrendAnalyzer.identify_trend_by_structure, lookback, its default
StructureLookback == 10

\* TrendAnalyzer.identify_trend_by_ema on a window of n rows: the slope of
\* the short EMA is (ema20 - prev_ema20) / prev_ema20, the trend threshold
\* is 0.0001 of it, the strength is min(|slope| * 1000, 1).
IdentifyTrendByEma(n, e) ==
    LET rise == e.ema20 - e.prev_ema20
        slope_up == e.prev_ema20 # 0 /\ rise * 10000 > e.prev_ema20
        slope_down == e.prev_ema20 # 0 /\ rise * 10000 < 0 - e.prev_ema20
        scaled == IF e.prev_ema20 = 0 THEN 0
                  ELSE Min((Abs(rise) * 1000000) \div e.prev_ema20, 1000)
    IN  IF n < EmaLongPeriod
        THEN [direction |-> "unknown", strength |-> 0]
        ELSE IF e.ema20 > e.ema50 /\ e.close > e.ema20
        THEN IF slope_up THEN [direction |-> "uptrend", strength |-> scaled]
             ELSE [direction |-> "sideways", strength |-> 300]
        ELSE IF e.ema20 < e.ema50 /\ e.close < e.ema20
        THEN IF slope_down THEN [direction |-> "downtrend", strength |-> scaled]
             ELSE [direction |-> "sideways", strength |-> 300]
        ELSE [direction |-> "sideways", strength |-> 200]

\* TrendAnalyzer.identify_trend_by_structure on a window of n rows, from
\* its four counters: the strength is min(score / (lookback / 2), 1).
IdentifyTrendByStructure(n, st) ==
    LET uptrend_score == st.higher_highs + st.higher_lows
        downtrend_score == st.lower_highs + st.lower_lows
    IN  IF n < StructureLookback
        THEN [direction |-> "unknown", strength |-> 0]
        ELSE IF uptrend_score > downtrend_score /\ uptrend_score > 0
        THEN [direction |-> "uptrend",
              strength |-> Min((uptrend_score * 2000) \div StructureLookback, 1000)]
        ELSE IF downtrend_score > uptrend_score /\ downtrend_score > 0
        THEN [direction |-> "downtrend",
              strength |-> Min((downtrend_score * 2000) \div StructureLookback, 1000)]
        ELSE [direction |-> "sideways", strength |-> 200]

\* direction_map of get_comprehensive_trend
DirectionValue(direction) ==
    CASE direction = "uptrend" -> 1
      [] direction = "downtrend" -> 0 - 1
      [] OTHER -> 0

\* The combination weighting the two analyses equally.
CombineTrend_EqualWeights(ema_trend, structure_trend) ==
    LET combined == DirectionValue(ema_trend.direction) * 5
                    + DirectionValue(structure_trend.direction) * 5
    IN  [direction |-> IF combined > 3 THEN "uptrend"
                       ELSE IF combined < 0 - 3 THEN "downtrend"
                       ELSE "sideways",
         strength |-> (ema_trend.strength * 7 + structure_trend.strength * 3) \div 10,
         confidence |-> Min((ema_trend.strength + structure_trend.strength) \div 2, 1000)]

\* The combination taking the bounds 0.3 and -0.3 in.
CombineTrend_Inclusive(ema_trend, structure_trend) ==
    LET combined == DirectionValue(ema_trend.direction) * 7
                    + DirectionValue(structure_trend.direction) * 3
    IN  [direction |-> IF combined >= 3 THEN "uptrend"
                       ELSE IF combined <= 0 - 3 THEN "downtrend"
                       ELSE "sideways",
         strength |-> (ema_trend.strength * 7 + structure_trend.strength * 3) \div 10,
         confidence |-> Min((ema_trend.strength + structure_trend.strength) \div 2, 1000)]

\* TrendAnalyzer.get_comprehensive_trend, the combination of the two
\* analyses: the direction values weighted 0.7 and 0.3 (in tenths here).
CombineTrend(ema_trend, structure_trend) ==
    LET combined == DirectionValue(ema_trend.direction) * 7
                    + DirectionValue(structure_trend.direction) * 3
    IN  [direction |-> IF combined > 3 THEN "uptrend"
                       ELSE IF combined < 0 - 3 THEN "downtrend"
                       ELSE "sideways",
         strength |-> (ema_trend.strength * 7 + structure_trend.strength * 3) \div 10,
         confidence |-> Min((ema_trend.strength + structure_trend.strength) \div 2, 1000)]

\* TrendAnalyzer.get_comprehensive_trend on a window of c.len rows
GetComprehensiveTrend(c, trend) ==
    IF trend.kind = "raise"
    THEN [raised |-> TRUE, direction |-> "unknown", strength |-> 0,
          confidence |-> 0]
    ELSE LET t == CombineTrend(IdentifyTrendByEma(c.len, trend.ema),
                               IdentifyTrendByStructure(c.len, trend.structure))
         IN  [raised |-> FALSE, direction |-> t.direction,
              strength |-> t.strength, confidence |-> t.confidence]

RECURSIVE InsertByPrice(_, _)
\* One step of sorted(levels, key=price), a stable sort: the level goes
\* after every level whose price is not larger.
InsertByPrice(sorted_levels, level) ==
    IF sorted_levels = <<>> THEN <<level>>
    ELSE IF sorted_levels[Len(sorted_levels)].price <= level.price
    THEN Append(sorted_levels, level)
    ELSE Append(InsertByPrice(SubSeq(sorted_levels, 1, Len(sorted_levels) - 1),
                              level),
                sorted_levels[Len(sorted_levels)])

RECURSIVE SortedByPrice(_)
SortedByPrice(levels) ==
    IF levels = <<>> THEN <<>>
    ELSE InsertByPrice(SortedByPrice(SubSeq(levels, 1, Len(levels) - 1)),
                       levels[Len(levels)])

\* The body of the loop merging only a level closer than the threshold.
MergeLevel_Strict(clustered, level, current_price) ==
    LET close_to(j) ==
            Abs(level.price - clustered[j].price) * 1000 < current_price
        hits == {j \in 1..Len(clustered) : close_to(j)}
        first == CHOOSE j \in hits : \A k \in hits : j <= k
    IN  IF hits # {}
        THEN [clustered EXCEPT
                 ![first].touches = @ + level.touches,
                 ![first].strength = Max(@, level.strength),
                 ![first].last_touch = Max(@, level.index)]
        ELSE Append(clustered,
                    [price |-> level.price, type |-> level.type,
                     touches |-> level.touches, strength |-> level.strength,
                     last_touch |-> level.index,
                     distance_from_current |->
                         (Abs(level.price - current_price) * 100000)
                             \div current_price])

\* cluster_levels, the body of its loop: the level is merged into the first
\* cluster whose price is within current_price * 0.001 of its own, or it
\* starts a cluster; distance_from_current is in 1/100000.
MergeLevel(clustered, level, current_price) ==
    LET close_to(j) ==
            Abs(level.price - clustered[j].price) * 1000 <= current_price
        hits == {j \in 1..Len(clustered) : close_to(j)}
        first == CHOOSE j \in hits : \A k \in hits : j <= k
    IN  IF hits # {}
        THEN [clustered EXCEPT
                 ![first].touches = @ + level.touches,
                 ![first].strength = Max(@, level.strength),
                 ![first].last_touch = Max(@, level.index)]
        ELSE Append(clustered,
                    [price |-> level.price, type |-> level.type,
                     touches |-> level.touches, strength |-> level.strength,
                     last_touch |-> level.index,
                     distance_from_current |->
                         (Abs(level.price - current_price) * 100000)
                             \div current_price])

RECURSIVE ClusterLoop(_, _, _, _)
\* cluster_levels, its loop from the i-th level of the list on
ClusterLoop(sorted_levels, i, clustered, current_price) ==
    IF i > Len(sorted_levels) THEN clustered
    ELSE ClusterLoop(sorted_levels, i + 1,
                     MergeLevel(clustered, sorted_levels[i], current_price),
                     current_price)

\* The clustering going through the levels in the order given.
ClusterLevels_Unsorted(levels, current_price) ==
    ClusterLoop(levels, 1, <<>>, current_price)

\* SupportResistanceAnalyzer.cluster_levels
ClusterLevels(levels, current_price) ==
    ClusterLoop(SortedByPrice(levels), 1, <<>>, current_price)

\* sr_lookback_periods, sr_min_touches, and the length of the lists returned
LookbackPeriods == 20
MinTouches == 2
TopLevels == 5

RECURSIVE InsertByDistance_Descending(_, _)
\* The sort putting the farthest level first.
InsertByDistance_Descending(sorted_levels, level) ==
    IF sorted_levels = <<>> THEN <<level>>
    ELSE IF sorted_levels[Len(sorted_levels)].distance_from_current
                >= level.distance_from_current
    THEN Append(sorted_levels, level)
    ELSE Append(InsertByDistance_Descending(
                    SubSeq(sorted_levels, 1, Len(sorted_levels) - 1), level),
                sorted_levels[Len(sorted_levels)])

RECURSIVE InsertByDistance(_, _)
\* One step of levels.sort(key=distance_from_current), a stable sort
InsertByDistance(sorted_levels, level) ==
    IF sorted_levels = <<>> THEN <<level>>
    ELSE IF sorted_levels[Len(sorted_levels)].distance_from_current
                <= level.distance_from_current
    THEN Append(sorted_levels, level)
    ELSE Append(InsertByDistance(
                    SubSeq(sorted_levels, 1, Len(sorted_levels) - 1), level),
                sorted_levels[Len(sorted_levels)])

RECURSIVE SortedByDistance(_)
SortedByDistance(levels) ==
    IF levels = <<>> THEN <<>>
    ELSE InsertByDistance(SortedByDistance(SubSeq(levels, 1, Len(levels) - 1)),
                          levels[Len(levels)])

\* The candidates kept of the pivots: those touched min_touches times
RECURSIVE KeepTouched(_)
KeepTouched(candidates) ==
    IF candidates = <<>> THEN <<>>
    ELSE LET rest == KeepTouched(SubSeq(candidates, 1, Len(candidates) - 1))
             last == candidates[Len(candidates)]
         IN  IF last.touches >= MinTouches THEN Append(rest, last) ELSE rest

\* The loops finding the nearest level: the first level of the list on the
\* side asked for, as a list of one, or the empty list for None.
NearestLevel(levels, current_price, side) ==
    LET hits == {j \in 1..Len(levels) :
                    IF side = "resistance" THEN levels[j].price > current_price
                    ELSE levels[j].price < current_price}
    IN  IF hits = {} THEN <<>>
        ELSE <<levels[CHOOSE j \in hits : \A k \in hits : j <= k]>>

\* SupportResistanceAnalyzer.find_support_resistance_levels on a window of n
\* candles closing at current_price, whose pivot highs and lows come with
\* the touches and the strength calculate_level_strength gives them.
SupportResistanceLevels(n, current_price, pivot_highs, pivot_lows) ==
    IF n < LookbackPeriods
    THEN [support_levels |-> <<>>, resistance_levels |-> <<>>,
          nearest_support |-> <<>>, nearest_resistance |-> <<>>,
          has_current_price |-> FALSE]
    ELSE LET resistance_levels ==
                 SortedByDistance(ClusterLevels(KeepTouched(pivot_highs),
                                                current_price))
             support_levels ==
                 SortedByDistance(ClusterLevels(KeepTouched(pivot_lows),
                                                current_price))
         IN  [support_levels |->
                  SubSeq(support_levels, 1, Min(TopLevels, Len(support_levels))),
              resistance_levels |->
                  SubSeq(resistance_levels, 1,
                         Min(TopLevels, Len(resistance_levels))),
              nearest_support |->
                  NearestLevel(support_levels, current_price, "support"),
              nearest_resistance |->
                  NearestLevel(resistance_levels, current_price, "resistance"),
              has_current_price |-> TRUE]

\* The level strength left as the counters make it.
CalculateLevelStrength_Unclamped(touches, bounces, breaks) ==
    touches * 300 + bounces * 500 - breaks * 200

\* SupportResistanceAnalyzer.calculate_level_strength, from its three
\* counters: 0.3 a touch, 0.5 a bounce, -0.2 a break, kept within 0..5.
CalculateLevelStrength(touches, bounces, breaks) ==
    Max(0, Min(touches * 300 + bounces * 500 - breaks * 200, 5000))

\* SupportResistanceAnalyzer.find_support_resistance_levels: the result has
\* no 'current_price' when the window is shorter than the lookback.
FindSupportResistanceLevels(c, sr) ==
    [raised |-> sr.kind = "raise",
     has_current_price |-> sr.kind = "ok",
     current_price |-> c.close,
     nearest_support |-> IF sr.kind = "ok" THEN sr.nearest_support ELSE 0,
     nearest_resistance |-> IF sr.kind = "ok" THEN sr.nearest_resistance
                            ELSE 0]

NoSrContext == [near_resistance |-> FALSE, near_support |-> FALSE]

\* SupportResistanceAnalyzer.get_sr_context_for_pattern: a level is near
\* within current_price * proximity_threshold * 2, that is 0.002 of it;
\* sr_analysis['current_price'] raises KeyError when the key is missing.
GetSrContextForPattern(pattern_price, sr_analysis) ==
    LET near(level) ==
            /\ level # 0
            /\ Abs(pattern_price - level) * 1000 <= sr_analysis.current_price * 2
    IN  IF ~sr_analysis.has_current_price
        THEN [raised |-> TRUE, value |-> NoSrContext]
        ELSE [raised |-> FALSE,
              value |-> [near_resistance |-> near(sr_analysis.nearest_resistance),
                         near_support |-> near(sr_analysis.nearest_support)]]

\* The classification taking every other direction for a range.
ClassifyPatternByContext_RangeDefault(pattern, trend_analysis) ==
    LET pattern_type == pattern.type
        trend_direction == trend_analysis.direction
    IN  CASE pattern_type = "bullish" /\ trend_direction = "uptrend" ->
                 "trend_continuation"
          [] pattern_type = "bearish" /\ trend_direction = "downtrend" ->
                 "trend_continuation"
          [] pattern_type = "bullish" /\ trend_direction = "downtrend" ->
                 "trend_reversal"
          [] pattern_type = "bearish" /\ trend_direction = "uptrend" ->
                 "trend_reversal"
          [] OTHER -> "range_trading"

\* EnhancedPatternManager._classify_pattern_by_context
ClassifyPatternByContext(pattern, trend_analysis) ==
    LET pattern_type == pattern.type
        trend_direction == trend_analysis.direction
    IN  CASE pattern_type = "bullish" /\ trend_direction = "uptrend" ->
                 "trend_continuation"
          [] pattern_type = "bearish" /\ trend_direction = "downtrend" ->
                 "trend_continuation"
          [] pattern_type = "bullish" /\ trend_direction = "downtrend" ->
                 "trend_reversal"
          [] pattern_type = "bearish" /\ trend_direction = "uptrend" ->
                 "trend_reversal"
          [] trend_direction = "sideways" -> "range_trading"
          [] OTHER -> "neutral"

\* Hammer.calculate_strength and ShootingStar.calculate_strength: 0.5, plus
\* 0.2 against the trend of the last candles, 0.1 on a volume above 1.2 of
\* the previous one, 0.2 or 0.1 by the tier of shadow / body, at most 1.
SingleCandleStrength(in_trend, volume_confirmed, ratio_tier) ==
    Min(500 + (IF in_trend THEN 200 ELSE 0)
            + (IF volume_confirmed THEN 100 ELSE 0)
            + (IF ratio_tier = 2 THEN 200 ELSE IF ratio_tier = 1 THEN 100 ELSE 0),
        1000)

\* Doji.calculate_strength: 0.5, plus 0.2 on a volume spike, 0.2 after a
\* strong move, 0.1 for a dragonfly or gravestone, at most 1.
DojiStrength(after_move, volume_spike, ratio_tier) ==
    Min(500 + (IF volume_spike THEN 200 ELSE 0)
            + (IF after_move THEN 200 ELSE 0)
            + (IF ratio_tier > 0 THEN 100 ELSE 0),
        1000)

\* BullishEngulfing.calculate_strength and BearishEngulfing's: 0.5, plus
\* 0.2 on a volume above 1.5 of the previous one, 0.2 or 0.1 by the tier of
\* the body ratio, at most 1.
EngulfingStrength(volume_confirmed, ratio_tier) ==
    Min(500 + (IF volume_confirmed THEN 200 ELSE 0)
            + (IF ratio_tier = 2 THEN 200 ELSE IF ratio_tier = 1 THEN 100 ELSE 0),
        1000)

\* calculate_strength of the detector named pattern_id
CalculateStrength(pattern_id, in_trend, volume_confirmed, ratio_tier) ==
    CASE pattern_id \in {"hammer", "shooting_star"} ->
             SingleCandleStrength(in_trend, volume_confirmed, ratio_tier)
      [] pattern_id = "doji" ->
             DojiStrength(in_trend, volume_confirmed, ratio_tier)
      [] OTHER -> EngulfingStrength(volume_confirmed, ratio_tier)

\* The metrics every single-candle detector computes of its candle
Body(candle) == Abs(candle.close - candle.open)

RangeTotal(candle) == candle.high - candle.low

UpperShadow(candle) == candle.high - Max(candle.open, candle.close)

LowerShadow(candle) == Min(candle.open, candle.close) - candle.low

\* detect returning None
NoMatch == [kind |-> "none"]

\* The tier of shadow / body in the calculate_strength of Hammer and
\* ShootingStar: above 3, above 2.5, or neither (also when the body is 0).
ShadowTier(shadow, body) ==
    IF body > 0 /\ shadow > 3 * body THEN 2
    ELSE IF body > 0 /\ 2 * shadow > 5 * body THEN 1
    ELSE 0

\* The hammer that must close above its open.
HammerDetect_GreenOnly(n, candle, in_trend, volume_confirmed) ==
    IF n < 1 \/ RangeTotal(candle) = 0 \/ candle.close <= candle.open
       \/ 4 * Body(candle) > RangeTotal(candle)
       \/ LowerShadow(candle) < 2 * Body(candle)
       \/ 10 * UpperShadow(candle) > RangeTotal(candle)
    THEN NoMatch
    ELSE [kind |-> "hit", pattern |-> "Hammer", type |-> "bullish",
          candle_close |-> candle.close,
          strength |-> SingleCandleStrength(in_trend, volume_confirmed,
                           ShadowTier(LowerShadow(candle), Body(candle)))]

\* Hammer.detect on a window of n candles whose last one is `candle`; the
\* ratios are tested here without the divisions.
HammerDetect(n, candle, in_trend, volume_confirmed) ==
    IF n < 1 THEN NoMatch
    ELSE IF RangeTotal(candle) = 0 THEN NoMatch
    ELSE IF 4 * Body(candle) > RangeTotal(candle) THEN NoMatch
    ELSE IF Body(candle) = 0 /\ 10 * LowerShadow(candle) < 6 * RangeTotal(candle)
    THEN NoMatch
    ELSE IF Body(candle) # 0 /\ LowerShadow(candle) < 2 * Body(candle)
    THEN NoMatch
    ELSE IF 10 * UpperShadow(candle) > RangeTotal(candle) THEN NoMatch
    ELSE [kind |-> "hit", pattern |-> "Hammer", type |-> "bullish",
          candle_close |-> candle.close,
          strength |-> SingleCandleStrength(in_trend, volume_confirmed,
                           ShadowTier(LowerShadow(candle), Body(candle)))]

\* ShootingStar.detect
ShootingStarDetect(n, candle, in_trend, volume_confirmed) ==
    IF n < 1 THEN NoMatch
    ELSE IF RangeTotal(candle) = 0 THEN NoMatch
    ELSE IF 4 * Body(candle) > RangeTotal(candle) THEN NoMatch
    ELSE IF Body(candle) = 0 /\ 10 * UpperShadow(candle) < 6 * RangeTotal(candle)
    THEN NoMatch
    ELSE IF Body(candle) # 0 /\ UpperShadow(candle) < 2 * Body(candle)
    THEN NoMatch
    ELSE IF 10 * LowerShadow(candle) > RangeTotal(candle) THEN NoMatch
    ELSE [kind |-> "hit", pattern |-> "Shooting Star", type |-> "bearish",
          candle_close |-> candle.close,
          strength |-> SingleCandleStrength(in_trend, volume_confirmed,
                           ShadowTier(UpperShadow(candle), Body(candle)))]

\* Doji.classify_doji
ClassifyDoji(upper_shadow, lower_shadow, range_total) ==
    IF range_total = 0 THEN "standard"
    ELSE IF 10 * upper_shadow < range_total /\ 10 * lower_shadow > 6 * range_total
    THEN "dragonfly"
    ELSE IF 10 * lower_shadow < range_total /\ 10 * upper_shadow > 6 * range_total
    THEN "gravestone"
    ELSE IF 10 * upper_shadow > 3 * range_total /\ 10 * lower_shadow > 3 * range_total
    THEN "long_legged"
    ELSE "standard"

\* The subtype bonus of Doji.calculate_strength, which classifies the candle
\* again
DojiTier(candle) ==
    IF ClassifyDoji(UpperShadow(candle), LowerShadow(candle), RangeTotal(candle))
           \in {"dragonfly", "gravestone"}
    THEN 1 ELSE 0

\* The doji with no test of its shadows.
DojiDetect_NoShadowTest(n, candle, after_move, volume_spike) ==
    IF n < 1 \/ RangeTotal(candle) = 0 \/ 10 * Body(candle) > RangeTotal(candle)
    THEN NoMatch
    ELSE [kind |-> "hit", pattern |-> "Doji", type |-> "neutral",
          subtype |-> ClassifyDoji(UpperShadow(candle), LowerShadow(candle),
                                   RangeTotal(candle)),
          candle_close |-> candle.close,
          strength |-> DojiStrength(after_move, volume_spike, DojiTier(candle))]

\* Doji.detect, with doji_threshold at its default 0.1
DojiDetect(n, candle, after_move, volume_spike) ==
    IF n < 1 THEN NoMatch
    ELSE IF RangeTotal(candle) = 0 THEN NoMatch
    ELSE IF 10 * Body(candle) > RangeTotal(candle) THEN NoMatch
    ELSE IF 10 * UpperShadow(candle) < RangeTotal(candle)
            \/ 10 * LowerShadow(candle) < RangeTotal(candle)
    THEN NoMatch
    ELSE [kind |-> "hit", pattern |-> "Doji", type |-> "neutral",
          subtype |-> ClassifyDoji(UpperShadow(candle), LowerShadow(candle),
                                   RangeTotal(candle)),
          candle_close |-> candle.close,
          strength |-> DojiStrength(after_move, volume_spike, DojiTier(candle))]

\* The tier of the body ratio in the calculate_strength of the engulfing
\* detectors: above 2, above 1.5, or neither.
BodyTier(prev_candle, curr_candle) ==
    IF Body(prev_candle) > 0 /\ Body(curr_candle) > 2 * Body(prev_candle) THEN 2
    ELSE IF Body(prev_candle) > 0 /\ 2 * Body(curr_candle) > 3 * Body(prev_candle)
    THEN 1
    ELSE 0

\* The current body containing the previous one
Engulfs(prev_candle, curr_candle) ==
    /\ Max(curr_candle.open, curr_candle.close)
           > Max(prev_candle.open, prev_candle.close)
    /\ Min(curr_candle.open, curr_candle.close)
           < Min(prev_candle.open, prev_candle.close)

\* The engulfing that takes equal body ends for contained.
BullishEngulfingDetect_Inclusive(n, prev_candle, curr_candle, volume_confirmed) ==
    IF n < 2 \/ prev_candle.close >= prev_candle.open
       \/ curr_candle.close <= curr_candle.open
       \/ curr_candle.close < prev_candle.open
       \/ curr_candle.open > prev_candle.close
    THEN NoMatch
    ELSE [kind |-> "hit", pattern |-> "Bullish Engulfing", type |-> "bullish",
          candle_close |-> curr_candle.close,
          strength |-> EngulfingStrength(volume_confirmed,
                                         BodyTier(prev_candle, curr_candle))]

\* BullishEngulfing.detect on a window of n candles ending with prev_candle
\* and curr_candle
BullishEngulfingDetect(n, prev_candle, curr_candle, volume_confirmed) ==
    IF n < 2 THEN NoMatch
    ELSE IF prev_candle.close >= prev_candle.open THEN NoMatch
    ELSE IF curr_candle.close <= curr_candle.open THEN NoMatch
    ELSE IF ~Engulfs(prev_candle, curr_candle) THEN NoMatch
    ELSE [kind |-> "hit", pattern |-> "Bullish Engulfing", type |-> "bullish",
          candle_close |-> curr_candle.close,
          strength |-> EngulfingStrength(volume_confirmed,
                                         BodyTier(prev_candle, curr_candle))]

\* BearishEngulfing.detect
BearishEngulfingDetect(n, prev_candle, curr_candle, volume_confirmed) ==
    IF n < 2 THEN NoMatch
    ELSE IF prev_candle.close <= prev_candle.open THEN NoMatch
    ELSE IF curr_candle.close >= curr_candle.open THEN NoMatch
    ELSE IF ~Engulfs(prev_candle, curr_candle) THEN NoMatch
    ELSE [kind |-> "hit", pattern |-> "Bearish Engulfing", type |-> "bearish",
          candle_close |-> curr_candle.close,
          strength |-> EngulfingStrength(volume_confirmed,
                                         BodyTier(prev_candle, curr_candle))]

\* StrengthCalculator._calculate_body_comparison on a window of n candles,
\* from the bodies of the last two: the tiers of current / previous, tested
\* here without the division.
CalculateBodyComparison(n, current_body, previous_body) ==
    IF n < 2 THEN 0
    ELSE IF previous_body = 0 THEN 500
    ELSE IF current_body >= 2 * previous_body THEN 1000
    ELSE IF 2 * current_body >= 3 * previous_body THEN 800
    ELSE IF 10 * current_body >= 12 * previous_body THEN 600
    ELSE IF current_body >= previous_body THEN 400
    ELSE 200

\* The volume tiers with the values of 2.0 and 2.5 exchanged.
CalculateVolumeSpike_TiersExchanged(n, current_volume, previous_volumes) ==
    IF n < 11 THEN 0
    ELSE IF previous_volumes = 0 THEN 500
    ELSE IF 10 * current_volume >= 3 * previous_volumes THEN 1000
    ELSE IF 4 * current_volume >= previous_volumes THEN 800
    ELSE IF 5 * current_volume >= previous_volumes THEN 900
    ELSE IF 20 * current_volume >= 3 * previous_volumes THEN 600
    ELSE IF 100 * current_volume >= 12 * previous_volumes THEN 400
    ELSE 200

\* StrengthCalculator._calculate_volume_spike on a window of n candles, from
\* the last volume and the sum of the ten volumes before it (their mean is
\* a tenth of it): the tiers of current / mean.
CalculateVolumeSpike(n, current_volume, previous_volumes) ==
    IF n < 11 THEN 0
    ELSE IF previous_volumes = 0 THEN 500
    ELSE IF 10 * current_volume >= 3 * previous_volumes THEN 1000
    ELSE IF 4 * current_volume >= previous_volumes THEN 900
    ELSE IF 5 * current_volume >= previous_volumes THEN 800
    ELSE IF 20 * current_volume >= 3 * previous_volumes THEN 600
    ELSE IF 100 * current_volume >= 12 * previous_volumes THEN 400
    ELSE 200

\* StrengthCalculator._calculate_volatility_strength on a window of n
\* candles, from the true range of the last candle and the sum of the 13
\* true ranges before it: the ATR is the mean of these 14, the last one
\* included; the tiers of current_tr / atr.
CalculateVolatilityStrength(n, current_tr, earlier_tr) ==
    LET total == current_tr + earlier_tr
    IN  IF n < 15 THEN 0
        ELSE IF total = 0 THEN 500
        ELSE IF 28 * current_tr >= 5 * total THEN 1000
        ELSE IF 7 * current_tr >= total THEN 800
        ELSE IF 28 * current_tr >= 3 * total THEN 600
        ELSE IF 140 * current_tr >= 12 * total THEN 400
        ELSE 200

\* StrengthCalculator._calculate_sr_proximity: 0 with no levels, else 1000
\* when some level is within 0.001 of the close, measured on the close.
CalculateSrProximity(close, sr_levels) ==
    IF sr_levels = <<>> THEN 0
    ELSE IF \E i \in 1..Len(sr_levels) :
                Abs(close - sr_levels[i]) * 1000 <= close
         THEN 1000 ELSE 0

\* The composite left as the sum makes it, with no clamp.
CalculateEnhancedStrength_Unclamped(c, pattern_info, sr_levels, calc) ==
    IF c.len < 20 \/ calc.kind = "raise"
    THEN pattern_info.strength
    ELSE (pattern_info.strength * 400 + calc.body_strength * 200
          + calc.volume_strength * 200
          + calc.volatility_strength * 100) \div 1000
         + (IF CalculateSrProximity(c.close, sr_levels) > 0 THEN 200 ELSE 0)

\* StrengthCalculator.calculate_enhanced_strength and _basic_strength: the
\* weighted sum 0.4 base + 0.2 body + 0.2 volume + 0.1 volatility, plus 0.2
\* near a level, kept within 0..1; the detector's strength when the window
\* has fewer than 20 candles or the computation raises.
CalculateEnhancedStrength(c, pattern_info, sr_levels, calc) ==
    LET base_strength == pattern_info.strength
        sr_bonus == CalculateSrProximity(c.close, sr_levels)
        total == (base_strength * 400 + calc.body_strength * 200
                  + calc.volume_strength * 200
                  + calc.volatility_strength * 100) \div 1000
                 + (IF sr_bonus > 0 THEN 200 ELSE 0)
    IN  IF c.len < 20 \/ calc.kind = "raise"
        THEN base_strength
        ELSE Min(Max(total, 0), 1000)

\* EnhancedPatternManager._enhance_pattern_with_context; sr_analysis has no
\* key 'levels', so sr_levels is the empty list. `fault` stands for any
\* other exception raised while this match is enriched.
EnhancePatternWithContext(pattern, trend_analysis, sr_analysis, c, calc, fault) ==
    LET pattern_price == pattern.candle_close
        sr_context == GetSrContextForPattern(pattern_price, sr_analysis)
        sr_levels == <<>>
        enhanced_strength ==
            CalculateEnhancedStrength(c, pattern, sr_levels, calc)
    IN  [raised |-> sr_context.raised \/ fault,
         value |->
            [pattern |-> pattern.pattern, type |-> pattern.type,
             candle_time |-> pattern.candle_time,
             candle_close |-> pattern.candle_close,
             symbol |-> pattern.symbol, timeframe |-> pattern.timeframe,
             pattern_id |-> pattern.pattern_id,
             trend_context |-> [direction |-> trend_analysis.direction,
                                strength |-> trend_analysis.strength,
                                confidence |-> trend_analysis.confidence],
             sr_context |-> sr_context.value,
             classification |->
                 ClassifyPatternByContext(pattern, trend_analysis),
             original_strength |-> pattern.strength,
             enhanced_strength |-> enhanced_strength,
             strength |-> enhanced_strength,
             candle_index |-> c.len - 1]]

\* The penalty taken twice on the same match.
Penalise_Twice(strength) == (((strength * 7) \div 10) * 7) \div 10

\* The 0.7 penalty of _should_keep_pattern
Penalise(strength) == (strength * 7) \div 10

\* EnhancedPatternManager._should_keep_pattern: whether the match is kept,
\* the return that decided it (`by`: "trend" the return False of the trend
\* filtering, "threshold" the return False of the strength threshold), and
\* the match as the call leaves it (its strength may be scaled by 0.7).
ShouldKeepPattern(pattern, cfg) ==
    LET classification == pattern.classification
        near == pattern.sr_context.near_resistance
                \/ pattern.sr_context.near_support
        dropped_by_trend ==
            /\ cfg.enable_trend_filtering
            /\ pattern.trend_context.strength > 600
            /\ classification = "trend_reversal"
            /\ (~cfg.allow_reversal_patterns \/ ~near)
        penalised ==
            /\ cfg.enable_sr_filtering
            /\ classification = "trend_reversal"
            /\ pattern.pattern_id \in cfg.reversal_pattern_names
            /\ ~near
        after == IF penalised
                 THEN [pattern EXCEPT !.strength = Penalise(pattern.strength)]
                 ELSE pattern
    IN  IF ~cfg.enable_trend_filtering /\ ~cfg.enable_sr_filtering
        THEN [keep |-> TRUE, by |-> "none", pattern |-> pattern]
        ELSE IF dropped_by_trend
        THEN [keep |-> FALSE, by |-> "trend", pattern |-> pattern]
        ELSE IF after.enhanced_strength < MinEnhancedStrength
        THEN [keep |-> FALSE, by |-> "threshold", pattern |-> after]
        ELSE [keep |-> TRUE, by |-> "none", pattern |-> after]

RECURSIVE EnhanceLoop(_, _, _, _, _, _, _, _, _)
\* scan_patterns_with_context, its loop over basic_patterns from the i-th
\* match on: enrich, then keep or drop. The fault-th match (0: none) is the
\* one whose enrichment raises for a reason of its own.
EnhanceLoop(basic_patterns, i, enhanced_patterns, trend_analysis, sr_analysis, c, cfg, calc, fault) ==
    IF i > Len(basic_patterns)
    THEN [raised |-> FALSE, value |-> enhanced_patterns]
    ELSE LET e == EnhancePatternWithContext(basic_patterns[i], trend_analysis,
                                            sr_analysis, c, calc, fault = i)
             k == ShouldKeepPattern(e.value, cfg)
         IN  IF e.raised
             THEN [raised |-> TRUE, value |-> enhanced_patterns]
             ELSE EnhanceLoop(basic_patterns, i + 1,
                              IF k.keep THEN Append(enhanced_patterns, k.pattern)
                              ELSE enhanced_patterns,
                              trend_analysis, sr_analysis, c, cfg, calc, fault)

\* The handler with no fallback: the exception goes on to the caller.
ExceptFallback_Reraise(c, symbol, timeframe, enhanced_patterns, cause) ==
    [raised |-> TRUE, value |-> <<>>, path |-> "fallback", cause |-> cause]

\* The handler returning the matches enriched before the exception.
ExceptFallback_Partial(c, symbol, timeframe, enhanced_patterns, cause) ==
    [raised |-> FALSE, value |-> enhanced_patterns, path |-> "fallback",
     cause |-> cause]

\* scan_patterns_with_context, its except handler: a new scan_patterns on
\* the candles it was given.
ExceptFallback(c, symbol, timeframe, enhanced_patterns, cause) ==
    LET basic == ScanPatterns(c, symbol, timeframe)
    IN  [raised |-> basic.raised, value |-> basic.value, path |-> "fallback",
         cause |-> cause]

\* EnhancedPatternManager.scan_patterns_with_context
ScanPatternsWithContext(c, symbol, timeframe, cfg, trend, sr, calc, fault) ==
    IF IsEmpty(c)
    THEN [raised |-> FALSE, value |-> <<>>, path |-> "empty", cause |-> "none"]
    ELSE IF c.len < Max(50, EmaLongPeriod)
    THEN LET basic == ScanPatterns(c, symbol, timeframe)
         IN  [raised |-> basic.raised, value |-> basic.value, path |-> "short",
              cause |-> "none"]
    ELSE LET trend_analysis == GetComprehensiveTrend(c, trend)
             sr_analysis == FindSupportResistanceLevels(c, sr)
             basic_patterns == ScanPatterns(c, symbol, timeframe)
             enhanced == EnhanceLoop(basic_patterns.value, 1, <<>>,
                                     trend_analysis, sr_analysis, c, cfg, calc,
                                     fault)
         IN  IF trend_analysis.raised
             THEN ExceptFallback(c, symbol, timeframe, <<>>, "trend")
             ELSE IF sr_analysis.raised
             THEN ExceptFallback(c, symbol, timeframe, <<>>, "sr")
             ELSE IF basic_patterns.raised
             THEN ExceptFallback(c, symbol, timeframe, <<>>, "scan")
             ELSE IF enhanced.raised
             THEN ExceptFallback(c, symbol, timeframe, enhanced.value, "enrich")
             ELSE [raised |-> FALSE, value |-> enhanced.value,
                   path |-> "enriched",
                   cause |-> IF calc.kind = "raise" /\ enhanced.value # <<>>
                             THEN "calc" ELSE "none"]

\* The frame with the columns ema20, ema50, price_vs_ema20, price_vs_ema50,
\* ema_bullish and ema_bearish
WithIndicators(c) == [f \in (DOMAIN c) \cup {"indicators"} |->
                         IF f = "indicators" THEN TRUE ELSE c[f]]

\* The indicators written into the frame it is given.
AddTechnicalIndicators_InPlace(c) ==
    [df |-> WithIndicators(c), candles |-> WithIndicators(c)]

\* TrendAnalyzer.add_technical_indicators: the columns are added to a copy;
\* df is the frame returned, candles the frame of the caller after the call.
AddTechnicalIndicators(c) == [df |-> WithIndicators(c), candles |-> c]

\* The window of the caller after a call of scan_patterns (which only reads
\* it) or of scan_patterns_with_context, whose one step that writes to a
\* frame is add_technical_indicators, the first of get_comprehensive_trend.
WindowAfter(entry, c) ==
    IF entry = "scan_patterns" \/ IsEmpty(c) \/ c.len < Max(50, EmaLongPeriod)
    THEN c
    ELSE AddTechnicalIndicators(c).candles

\* One call of an entry point of the manager on the window c; the
\* analyzers, which keep nothing between calls and read no clock, make of
\* the window what trend, sr, calc and fault say.
ScanCall(entry, c, cfg, trend, sr, calc, fault) ==
    LET r == IF entry = "scan_patterns" THEN ScanPatterns(c, "EURUSD", "H1")
             ELSE ScanPatternsWithContext(c, "EURUSD", "H1", cfg, trend, sr,
                                          calc, fault)
    IN  [value |-> r.value, raised |-> r.raised,
         candles |-> WindowAfter(entry, c)]

-----------------------------------------------------------------------------
(* The states in which one part of the program rests while another runs *)

NoNote == [entry |-> "none", path |-> "none", raised |-> FALSE,
           cause |-> "none"]

ScanIdle ==
    /\ candles = NoCandles
    /\ analysis = DefaultAnalysis
    /\ scan_pc = "ready"
    /\ detected = <<>>
    /\ scan_note = NoNote

RestingSignal ==
    Tag([pattern |-> "Doji", type |-> "neutral", candle_time |-> 1,
         candle_close |-> 12345, strength |-> 500], "EURUSD", "H1", "doji")

KeyIdle ==
    /\ pattern_a = RestingSignal
    /\ pattern_b = RestingSignal
    /\ key_a = GenerateAlertKey(RestingSignal)

NoCall == [fn |-> "none"]

FnIdle ==
    /\ fn_in = NoCall
    /\ fn_out = NoCall

-----------------------------------------------------------------------------
(* The bot's alert loop *)

RECURSIVE FilterSeq(_, _)
\* PatternManager.filter_patterns with pattern_types = None
FilterSeq(patterns, min_strength) ==
    IF patterns = <<>> THEN <<>>
    ELSE LET rest == FilterSeq(Tail(patterns), min_strength)
         IN  IF min_strength > 0 /\ ~(Head(patterns).strength >= min_strength)
             THEN rest
             ELSE <<Head(patterns)>> \o rest

Batches == UNION {[1..n -> BotSignals] : n \in 1..MaxBatch}

NoOp == [op |-> "none", io |-> "ok", rd |-> "ok", raised |-> FALSE,
         replaced |-> FALSE]

\* config: symbols and timeframes
Symbols == <<"EURUSD", "XAUUSD">>
Timeframes == <<"M15", "H1">>

\* f"{symbol}_{timeframe}"
CandleKey(symbol, timeframe) == <<symbol, "_", timeframe>>

CandleKeys ==
    {CandleKey(Symbols[i], Timeframes[j]) :
        i \in 1..Len(Symbols), j \in 1..Len(Timeframes)}

NoKey == <<>>
NotScanning == [i |-> 0, j |-> 0]
NoGateOp == [met |-> "none", refused_failed |-> FALSE]

\* No pass of scan_for_closed_candles made yet: last_candle_times is {}.
GateIdle ==
    /\ last_candle_times = EmptyCache
    /\ gate_pc = NotScanning
    /\ scanned = [k \in CandleKeys |-> EmptyCache]
    /\ failed = NoKey
    /\ gate_op = NoGateOp

\* The state after PriceActionBot.__init__ with no cache file yet.
InitBot ==
    /\ GateIdle
    /\ now = 0
    /\ pc = "idle"
    /\ cache = EmptyCache
    /\ store = AbsentStore
    /\ queue = <<>>
    /\ alerts_sent = 0
    /\ lastAlert = [k \in BotKeys |-> NoTime]
    /\ last_op = NoOp

\* The bot started, no scan under way.
Init == InitBot /\ ScanIdle /\ KeyIdle /\ FnIdle

\* time passes
Tick ==
    /\ now < MaxTime
    /\ now' = now + 1
    /\ last_op' = NoOp
    /\ UNCHANGED <<pc, cache, store, queue, alerts_sent, lastAlert>>
    /\ UNCHANGED <<scanVars, keyVars, fnVars, gateVars>>

\* PriceActionBot.run, one turn of the loop with a scan that found
\* `patterns`: process_patterns filters them and starts on the first.
StartPass(patterns) ==
    /\ pc = "idle"
    /\ queue' = FilterSeq(patterns, MinStrength)
    /\ alerts_sent' = 0
    /\ pc' = IF queue' = <<>> THEN "idle" ELSE "processing"
    /\ last_op' = NoOp
    /\ UNCHANGED <<now, cache, store, lastAlert>>
    /\ UNCHANGED <<scanVars, keyVars, fnVars, gateVars>>

\* What send_alert_sync does: it returns True or False, or raises
SendOutcomes == {"true", "false", "raise"}

\* The loop body recording the pattern before it looks at the send.
ProcessOne_RecordFirst(send, io) ==
    /\ pc = "processing"
    /\ LET pattern == Head(queue)
           key == GenerateAlertKey(pattern)
           added == AddAlert(cache, store, pattern, now, io)
       IN  IF IsDuplicate(cache, pattern, now)
           THEN /\ send = "false" /\ io = "ok"
                /\ queue' = Tail(queue)
                /\ pc' = IF queue' = <<>> THEN "idle" ELSE "processing"
                /\ last_op' = NoOp
                /\ UNCHANGED <<cache, store, alerts_sent, lastAlert>>
           ELSE /\ alerts_sent' = IF send = "true" THEN alerts_sent + 1
                                  ELSE alerts_sent
                /\ lastAlert' = IF send = "true"
                                THEN [lastAlert EXCEPT ![key] = now]
                                ELSE lastAlert
                /\ store' = added.store
                /\ last_op' = IF send = "true"
                              THEN [op |-> "add", io |-> io, rd |-> "ok",
                                    raised |-> added.raised,
                                    replaced |-> key \in DOMAIN cache]
                              ELSE NoOp
                /\ IF io = "crash"
                   THEN /\ pc' = "down"
                        /\ cache' = EmptyCache
                        /\ queue' = <<>>
                   ELSE /\ cache' = added.cache
                        /\ queue' = Tail(queue)
                        /\ pc' = IF queue' = <<>> THEN "idle" ELSE "processing"
    /\ UNCHANGED now
    /\ UNCHANGED <<scanVars, keyVars, fnVars, gateVars>>

\* process_patterns, the loop body for one pattern: skip a duplicate, else
\* send and, when send_alert_sync returned true, count the alert and record
\* it with add_alert, whose file write goes as io says; a send that raises
\* is caught by the loop, which goes on to the next pattern. The send and
\* the add fall in one tick: the record is never stamped before the send.
ProcessOne(send, io) ==
    /\ pc = "processing"
    /\ LET pattern == Head(queue)
           key == GenerateAlertKey(pattern)
           added == AddAlert(cache, store, pattern, now, io)
       IN  IF IsDuplicate(cache, pattern, now) \/ send # "true"
           THEN /\ send # "true" /\ io = "ok"
                /\ IsDuplicate(cache, pattern, now) => send = "false"
                /\ queue' = Tail(queue)
                /\ pc' = IF queue' = <<>> THEN "idle" ELSE "processing"
                /\ last_op' = NoOp
                /\ UNCHANGED <<cache, store, alerts_sent, lastAlert>>
           ELSE /\ alerts_sent' = alerts_sent + 1
                /\ lastAlert' = [lastAlert EXCEPT ![key] = now]
                /\ store' = added.store
                /\ last_op' = [op |-> "add", io |-> io, rd |-> "ok",
                               raised |-> added.raised,
                               replaced |-> key \in DOMAIN cache]
                /\ IF io = "crash"
                   THEN /\ pc' = "down"
                        /\ cache' = EmptyCache
                        /\ queue' = <<>>
                   ELSE /\ cache' = added.cache
                        /\ queue' = Tail(queue)
                        /\ pc' = IF queue' = <<>> THEN "idle" ELSE "processing"
    /\ UNCHANGED now
    /\ UNCHANGED <<scanVars, keyVars, fnVars, gateVars>>

\* PriceActionBot.stop after SIGINT/SIGTERM: the handler only clears
\* `running`, so the loop ends between two passes.
Stop ==
    /\ pc = "idle"
    /\ pc' = "down"
    /\ cache' = EmptyCache
    /\ last_op' = NoOp
    /\ UNCHANGED <<now, store, queue, alerts_sent, lastAlert>>
    /\ UNCHANGED <<scanVars, keyVars, fnVars, gateVars>>

\* The process is killed while no file write is under way.
Kill ==
    /\ pc = "processing"
    /\ pc' = "down"
    /\ cache' = EmptyCache
    /\ queue' = <<>>
    /\ last_op' = NoOp
    /\ UNCHANGED <<now, store, alerts_sent, lastAlert>>
    /\ UNCHANGED <<scanVars, keyVars, fnVars, gateVars>>

\* PriceActionBot.__init__ of a new process: AlertCache.__init__ loads the
\* file and sweeps it. rd is how the read goes, io how the sweep's write goes.
Start(rd, io) ==
    /\ pc = "down"
    /\ LET loaded == LoadCache(store, now, rd, io)
       IN  /\ loaded.saved \/ io = "ok"
           /\ store.state = "ok" \/ rd = "ok"
           /\ store' = loaded.store
           /\ last_op' = [op |-> "load", io |-> io, rd |-> rd,
                          raised |-> loaded.raised, replaced |-> FALSE]
           /\ IF loaded.saved /\ io = "crash"
              THEN /\ pc' = "down"
                   /\ cache' = EmptyCache
              ELSE /\ pc' = "idle"
                   /\ cache' = loaded.cache
    /\ alerts_sent' = 0
    /\ UNCHANGED <<now, queue, lastAlert>>
    /\ UNCHANGED <<scanVars, keyVars, fnVars, gateVars>>

\* The bot with the file system and the process as they can fail.
Next ==
    \/ Tick
    \/ \E patterns \in Batches : StartPass(patterns)
    \/ \E send \in SendOutcomes, io \in IOAll : ProcessOne(send, io)
    \/ Stop
    \/ Kill
    \/ \E rd \in ReadAll, io \in IOAll : Start(rd, io)

Spec == Init /\ [][Next]_vars

\* The bot with every file read and write succeeding and only orderly
\* restarts.
NextReliable ==
    \/ Tick
    \/ \E patterns \in Batches : StartPass(patterns)
    \/ \E send \in SendOutcomes, io \in IOReliable : ProcessOne(send, io)
    \/ Stop
    \/ \E rd \in ReadReliable, io \in IOReliable : Start(rd, io)

SpecReliable == Init /\ [][NextReliable]_vars

\* The bot running on, never restarted, with every file write succeeding;
\* time passes and the loop keeps taking its turns.
NextRun ==
    \/ Tick
    \/ \E patterns \in Batches : StartPass(patterns)
    \/ \E send \in SendOutcomes, io \in IOReliable : ProcessOne(send, io)

FairRun ==
    /\ Init
    /\ [][NextRun]_vars
    /\ WF_vars(Tick)
    /\ WF_vars(\E patterns \in Batches : StartPass(patterns))
    /\ WF_vars(\E send \in SendOutcomes, io \in IOReliable : ProcessOne(send, io))

-----------------------------------------------------------------------------
(* The gate of the closed candles *)

\* The times of the closed candles the connector may report
MaxCandleTime == 2

\* get_latest_closed_candle: None, an exception, or a candle with its time
\* (the connector is not bound to report times in order)
LatestOutcomes ==
    {[kind |-> "None", time |-> 0], [kind |-> "raise", time |-> 0]}
    \cup [kind : {"candle"}, time : 1..MaxCandleTime]

\* is_market_open, and get_candles followed by scan_patterns
MarketOutcomes == {"open", "closed", "raise"}
DataOutcomes == {"ok", "None", "empty", "raise"}

\* is_new_candle taking a candle of the recorded time for new.
IsNewCandle_Inclusive(times, key, latest_candle) ==
    IF latest_candle.kind = "None" THEN [result |-> FALSE, times |-> times]
    ELSE IF key \notin DOMAIN times \/ latest_candle.time >= times[key]
    THEN [result |-> TRUE, times |-> Put(times, key, latest_candle.time)]
    ELSE [result |-> FALSE, times |-> times]

\* PriceActionBot.is_new_candle once the connector has answered
IsNewCandle(times, key, latest_candle) ==
    IF latest_candle.kind = "None" THEN [result |-> FALSE, times |-> times]
    ELSE IF key \notin DOMAIN times
    THEN [result |-> TRUE, times |-> Put(times, key, latest_candle.time)]
    ELSE IF latest_candle.time > times[key]
    THEN [result |-> TRUE, times |-> Put(times, key, latest_candle.time)]
    ELSE [result |-> FALSE, times |-> times]

\* Where the loops go next: the next timeframe of the symbol, or the next
\* symbol, or the end of the pass
NextTimeframe(at) ==
    IF at.j < Len(Timeframes) THEN [i |-> at.i, j |-> at.j + 1]
    ELSE IF at.i < Len(Symbols) THEN [i |-> at.i + 1, j |-> 1]
    ELSE NotScanning

NextSymbol(at) ==
    IF at.i < Len(Symbols) THEN [i |-> at.i + 1, j |-> 1] ELSE NotScanning

\* PriceActionBot.run calls scan_for_closed_candles
StartScan ==
    /\ gate_pc = NotScanning
    /\ gate_pc' = [i |-> 1, j |-> 1]
    /\ gate_op' = NoGateOp
    /\ UNCHANGED <<last_candle_times, scanned, failed>>
    /\ UNCHANGED <<now, pc, cache, store, queue, alerts_sent, lastAlert, last_op>>
    /\ UNCHANGED <<scanVars, keyVars, fnVars>>

\* scan_for_closed_candles, its loops at one symbol and timeframe: the
\* market is checked when the symbol is entered; is_new_candle asks for the
\* latest closed candle and records its time before the candles are
\* fetched and scanned; an exception anywhere leaves the symbol.
ScanPair(market, latest, data) ==
    /\ gate_pc # NotScanning
    /\ gate_pc.j > 1 => market = "open"
    /\ market # "open" => latest.kind = "None"
    /\ LET key == CandleKey(Symbols[gate_pc.i], Timeframes[gate_pc.j])
           new == IsNewCandle(last_candle_times, key, latest)
           scan_failed == data # "ok"
       IN  /\ ~(market = "open" /\ latest.kind = "candle" /\ new.result)
                  => data = "ok"
           /\ IF market # "open"
              THEN /\ gate_pc' = NextSymbol(gate_pc)
                   /\ gate_op' = [NoGateOp EXCEPT !.met = market]
                   /\ UNCHANGED <<last_candle_times, scanned, failed>>
              ELSE IF latest.kind = "raise"
              THEN /\ gate_pc' = NextSymbol(gate_pc)
                   /\ gate_op' = [NoGateOp EXCEPT !.met = "raise"]
                   /\ UNCHANGED <<last_candle_times, scanned, failed>>
              ELSE IF ~new.result
              THEN /\ gate_pc' = NextTimeframe(gate_pc)
                   /\ gate_op' =
                          [met |-> IF latest.kind = "None" THEN "None" ELSE "old",
                           refused_failed |->
                               /\ latest.kind = "candle"
                               /\ key = failed
                               /\ latest.time = last_candle_times[key]]
                   /\ UNCHANGED <<last_candle_times, scanned, failed>>
              ELSE /\ last_candle_times' = new.times
                   /\ scanned' =
                          [scanned EXCEPT ![key] =
                              Put(@, latest.time,
                                  IF latest.time \in DOMAIN @
                                  THEN @[latest.time] + 1 ELSE 1)]
                   /\ failed' = IF scan_failed THEN key
                                ELSE IF failed = key THEN NoKey
                                ELSE failed
                   /\ gate_op' = [met |-> IF scan_failed THEN "new_failed"
                                          ELSE "new_scanned",
                                  refused_failed |-> FALSE]
                   /\ gate_pc' = IF data = "raise" THEN NextSymbol(gate_pc)
                                 ELSE NextTimeframe(gate_pc)
    /\ UNCHANGED <<now, pc, cache, store, queue, alerts_sent, lastAlert, last_op>>
    /\ UNCHANGED <<scanVars, keyVars, fnVars>>

NextGate ==
    \/ StartScan
    \/ \E market \in MarketOutcomes, latest \in LatestOutcomes,
          data \in DataOutcomes : ScanPair(market, latest, data)

\* The passes of scan_for_closed_candles of one process.
SpecGate == Init /\ [][NextGate]_vars

-----------------------------------------------------------------------------
(* One scan of one window *)

\* A scan about to be made: any window, any setting of the switches.
InitScan ==
    /\ InitBot
    /\ KeyIdle
    /\ FnIdle
    /\ candles \in Windows
    /\ analysis \in ScanConfigs
    /\ scan_pc = "ready"
    /\ detected = <<>>
    /\ scan_note = NoNote

\* a caller calls PatternManager.scan_patterns
CallScanPatterns ==
    /\ scan_pc = "ready"
    /\ \E r \in {ScanPatterns(candles, "EURUSD", "H1")} :
           /\ detected' = r.value
           /\ scan_note' = [entry |-> "scan_patterns", path |-> "basic",
                            raised |-> r.raised, cause |-> "none"]
    /\ scan_pc' = "done"
    /\ UNCHANGED <<candles, analysis, botVars, keyVars, fnVars, gateVars>>

\* a caller calls EnhancedPatternManager.scan_patterns_with_context; the
\* analyzers do on the window what trend, sr, calc and fault say
CallScanPatternsWithContext(trend, sr, calc, fault) ==
    /\ scan_pc = "ready"
    /\ \E r \in {ScanPatternsWithContext(candles, "EURUSD", "H1", analysis,
                                         trend, sr, calc, fault)} :
           /\ detected' = r.value
           /\ scan_note' = [entry |-> "scan_patterns_with_context",
                            path |-> r.path, raised |-> r.raised,
                            cause |-> r.cause]
    /\ scan_pc' = "done"
    /\ UNCHANGED <<candles, analysis, botVars, keyVars, fnVars, gateVars>>

NextScan ==
    \/ CallScanPatterns
    \/ \E trend \in TrendOutcomes, sr \in SROutcomes, calc \in CalcOutcomes,
          fault \in 0..MaxDetectors :
           CallScanPatternsWithContext(trend, sr, calc, fault)

SpecScan == InitScan /\ [][NextScan]_vars

-----------------------------------------------------------------------------
(* Two signals and their keys *)

\* what the detectors can report on the symbols and timeframes watched
KeySignals ==
    {Tag([pattern |-> PatternName(n), type |-> PatternType(n),
          candle_time |-> t, candle_close |-> p, strength |-> s], sy, tf, n) :
        n \in {"hammer", "shooting_star"}, t \in {1, 2}, p \in {12345, 12350},
        s \in {500, 900}, sy \in {"EURUSD", "XAUUSD"}, tf \in {"H1", "M15"}}

InitKey ==
    /\ InitBot
    /\ ScanIdle
    /\ FnIdle
    /\ pattern_a \in KeySignals
    /\ pattern_b \in KeySignals
    /\ key_a = GenerateAlertKey(pattern_a)

\* pattern_a goes through _enhance_pattern_with_context and
\* _should_keep_pattern of a scan of a 50-candle window
EnrichA(trend, sr, calc) ==
    /\ "classification" \notin DOMAIN pattern_a
    /\ trend.kind = "ok"
    /\ sr.kind = "ok"
    /\ LET c == [kind |-> "frame", len |-> 50, close |-> pattern_a.candle_close,
                 time |-> pattern_a.candle_time]
           e == EnhancePatternWithContext(pattern_a,
                    GetComprehensiveTrend(c, trend),
                    FindSupportResistanceLevels(c, sr), c, calc, FALSE)
       IN  pattern_a' = ShouldKeepPattern(e.value, analysis).pattern
    /\ UNCHANGED <<pattern_b, key_a, botVars, scanVars, fnVars, gateVars>>

NextKey ==
    \E trend \in TrendOutcomes, sr \in SROutcomes, calc \in CalcOutcomes :
        EnrichA(trend, sr, calc)

SpecKey == InitKey /\ [][NextKey]_vars

-----------------------------------------------------------------------------
(* The analysis functions, each called once on one input *)

\* _classify_pattern_by_context reads the polarity of the match and the
\* direction of the trend analysis.
ClassifyInputs ==
    [fn : {"classify"},
     pattern : [type : {"bullish", "bearish", "neutral"}],
     trend_analysis :
         [direction : {"uptrend", "downtrend", "sideways", "unknown"}]]

\* The matches _should_keep_pattern is given by the loop of
\* scan_patterns_with_context: bullish matches of two detectors, enriched in
\* an uptrend or a downtrend of strength 0.6 or 0.79, near a support or
\* not, their strength being their enhanced strength.
KeepPatterns ==
    {[pattern_id |-> n, type |-> "bullish",
      trend_context |-> [direction |-> d, strength |-> ts, confidence |-> 600],
      sr_context |-> [near_resistance |-> FALSE, near_support |-> ns],
      classification |->
          ClassifyPatternByContext([type |-> "bullish"], [direction |-> d]),
      enhanced_strength |-> es, strength |-> es] :
        n \in {"hammer", "bullish_engulfing"}, d \in {"uptrend", "downtrend"},
        ts \in {600, 790}, ns \in BOOLEAN, es \in {390, 400, 460, 580}}

KeepInputs == [fn : {"keep"}, pattern : KeepPatterns, cfg : AnalysisConfigs]

\* calculate_enhanced_strength is given a window of 19 or 20 candles closing
\* at 10000, a match with its base strength, the three components as the
\* component functions return them, and a list of levels, each within 0.001
\* of the close (10 here) or farther.
CompositeInputs ==
    [fn : {"composite"},
     c : [kind : {"frame"}, len : {19, 20}, close : {10000}, time : {1}],
     pattern_info : [strength : {500, 1000}],
     sr_levels : {<<>>, <<10010>>, <<10011>>, <<9995, 10005>>, <<10020, 9990>>},
     calc : [kind : {"ok"}, body_strength : {0, 200, 1000},
             volume_strength : {0, 500, 1000},
             volatility_strength : {200, 1000}]]

\* The component functions are called on two windows a and b of the same
\* length; what each reads of its window is drawn around its tier bounds,
\* with a previous body, previous volumes and true ranges that may be 0.
BodyPoints == [current_body : {0, 9, 10, 12, 15, 20, 30}, previous_body : {0, 1, 10}]

VolumePoints == [current_volume : {0, 11, 12, 15, 20, 25, 30}, previous_volumes : {0, 10, 100}]

VolatilityPoints == [current_tr : {0, 3, 5}, earlier_tr : {0, 23, 25, 30, 32, 33}]

ComponentInputs ==
    [fn : {"body"}, n : {10, 20}, a : BodyPoints, b : BodyPoints]
    \cup [fn : {"volume"}, n : {10, 20}, a : VolumePoints, b : VolumePoints]
    \cup [fn : {"volatility"}, n : {10, 20}, a : VolatilityPoints,
          b : VolatilityPoints]

\* What identify_trend_by_ema and identify_trend_by_structure can return:
\* unknown with strength 0, or a direction with a strength.
SubTrends ==
    {[direction |-> "unknown", strength |-> 0]} \cup
    [direction : {"uptrend", "downtrend", "sideways"},
     strength : {200, 500, 1000}]

CombineInputs ==
    [fn : {"combine"}, ema_trend : SubTrends, structure_trend : SubTrends]

\* get_comprehensive_trend is given windows shorter than the structure
\* lookback, shorter than the long EMA span, and of that span.
TrendInputs ==
    [fn : {"trend"},
     c : [kind : {"frame"}, len : {5, 10, 49, 50}, close : {10000}, time : {1}],
     trend : TrendOutcomes]

\* The candidates find_support_resistance_levels passes to cluster_levels:
\* pivots of one type in the order found, each with at least min_touches
\* touches and the strength calculate_level_strength gave it; the price now
\* is 10000, so that levels 10 apart or closer cluster.
LevelPrices == {10000, 10008, 10010, 10016, 10030}

LevelStrengths ==
    {[touches |-> 2, strength |-> CalculateLevelStrength(2, 0, 0)],
     [touches |-> 3, strength |-> CalculateLevelStrength(3, 3, 0)]}

Candidates(n) ==
    {[i \in 1..n |-> [price |-> pr[i], type |-> "resistance", index |-> 5 + i,
                      touches |-> st[i].touches, strength |-> st[i].strength]] :
        pr \in [1..n -> LevelPrices], st \in [1..n -> LevelStrengths]}

ClusterInputs ==
    [fn : {"cluster"}, current_price : {10000},
     levels : UNION {Candidates(n) : n \in 0..MaxLevels}]

\* What a detector's calculate_strength reads off its candles: whether the
\* trend (or the move) before the candle counts, whether the volume does,
\* and the tier of its ratio.
BaseInputs ==
    [fn : {"base"},
     pattern_id : {PatternClasses[i] : i \in 1..Len(PatternClasses)},
     in_trend : BOOLEAN, volume_confirmed : BOOLEAN, ratio_tier : {0, 1, 2}]

\* The counters of calculate_level_strength over the 20 candles of the
\* lookback: a bounce is counted on a touch, a break on a bounce.
LevelCounts == {0, 1, 2, 7, 20}

LevelInputs ==
    {r \in [fn : {"level"}, touches : LevelCounts, bounces : LevelCounts,
            breaks : LevelCounts] :
        r.breaks <= r.bounces /\ r.bounces <= r.touches}

\* The last candle of a window, in tenths of a pip: every candle with its
\* low at 0, its high at 0, 10 or 20 and its open and close between them,
\* and the candle open 1.2000, high 1.2008, low 1.1950, close 1.2005.
LastCandles ==
    {c \in [open : 0..20, high : {0, 10, 20}, low : {0}, close : 0..20] :
        c.open <= c.high /\ c.close <= c.high}
    \cup {[open |-> 12000, high |-> 12008, low |-> 11950, close |-> 12005]}

\* Windows of 0, 1 and 5 candles; the strength of a detector looks at the
\* candle before only when there is one, at the trend only in 5 candles.
SingleCandleInputs ==
    {r \in [fn : {"hammer", "shooting_star", "doji"}, n : {0, 1, 5},
            candle : LastCandles, in_trend : BOOLEAN,
            volume_confirmed : BOOLEAN] :
        /\ r.in_trend => r.n >= 5
        /\ r.volume_confirmed => r.n >= 2}

\* A candle with no shadows
BodyCandle(open, close) ==
    [open |-> open, high |-> Max(open, close), low |-> Min(open, close),
     close |-> close]

\* The last two candles of a window: bodies with their ends between 1 and 5,
\* and the pair open 1.1050 close 1.1020, open 1.1015 close 1.1065.
CandlePairs ==
    {[prev |-> BodyCandle(p_open, p_close), curr |-> BodyCandle(c_open, c_close)] :
        p_open \in 1..5, p_close \in 1..5, c_open \in 1..5, c_close \in 1..5}
    \cup {[prev |-> BodyCandle(11050, 11020), curr |-> BodyCandle(11015, 11065)]}

EngulfingInputs ==
    [fn : {"bullish_engulfing", "bearish_engulfing"}, n : {1, 2},
     pair : CandlePairs, volume_confirmed : BOOLEAN]

\* _enhance_pattern_with_context is given a match closing at 12345 in a
\* window of 50 candles, the trend as the analyzer read it, and an SR
\* analysis whose nearest support and resistance (0: None) are within 0.001
\* of the close (12340, 12350), within 0.002 (12330, 12360) or missing.
EnhanceInputs ==
    [fn : {"enhance"},
     pattern : {Tag([pattern |-> PatternName(n), type |-> PatternType(n),
                     candle_time |-> 1, candle_close |-> 12345,
                     strength |-> st], "EURUSD", "H1", n) :
                   n \in {"hammer", "shooting_star"}, st \in {500, 900}},
     trend : TrendOutcomes \ {[kind |-> "raise"]},
     sr : [kind : {"ok"}, nearest_support : {0, 12330, 12340},
           nearest_resistance : {0, 12350, 12360}],
     calc : CalcOutcomes \ {[kind |-> "raise"]}]

\* The prices of the pivots of a window closing at 10000, in the order of
\* their candles: on both sides of the close and at the close, 20 apart but
\* for 9990 and 10000, which cluster together.
PivotPrices == <<10030, 9950, 10000, 9990, 10050, 9970, 10070>>

RECURSIVE PivotsOf(_, _, _)
\* The pivots at the places of `mask` among the first k, touched twice but
\* for a pivot low at 9950, touched once.
PivotsOf(mask, k, type) ==
    IF k = 0 THEN <<>>
    ELSE IF k \notin mask THEN PivotsOf(mask, k - 1, type)
    ELSE Append(PivotsOf(mask, k - 1, type),
                LET t == IF type = "support" /\ PivotPrices[k] = 9950
                         THEN 1 ELSE 2
                IN  [price |-> PivotPrices[k], type |-> type, index |-> 5 + k,
                     touches |-> t,
                     strength |-> CalculateLevelStrength(t, 0, 0)])

SrInputs ==
    {r \in [fn : {"sr"}, n : {19, 20}, current_price : {10000},
            highs : SUBSET (1..Len(PivotPrices)),
            lows : SUBSET (1..Len(PivotPrices))] :
        r.n = 19 => r.highs = r.lows}

\* An entry point of the manager is called twice by the same caller, on
\* any window, with the switches at their defaults or all off.
ScanTwiceInputs ==
    [fn : {"scan_twice"},
     entry : {"scan_patterns", "scan_patterns_with_context"},
     candles : Windows,
     cfg : {DefaultAnalysis,
            [DefaultAnalysis EXCEPT !.enable_trend_filtering = FALSE,
                                    !.enable_sr_filtering = FALSE]},
     trend : {[kind |-> "raise"],
              [kind |-> "ok", ema |-> EmaFalling, structure |-> StructureFlat]},
     sr : {[kind |-> "short"],
           [kind |-> "ok", nearest_support |-> 12330, nearest_resistance |-> 0]},
     calc : {[kind |-> "raise"],
             [kind |-> "ok", body_strength |-> 1000, volume_strength |-> 200,
              volatility_strength |-> 200]},
     fault : {0, 1}]

InitCalc ==
    /\ InitBot
    /\ ScanIdle
    /\ KeyIdle
    /\ \/ fn_in \in ClassifyInputs
       \/ fn_in \in KeepInputs
       \/ fn_in \in CompositeInputs
       \/ fn_in \in ComponentInputs
       \/ fn_in \in CombineInputs
       \/ fn_in \in TrendInputs
       \/ fn_in \in ClusterInputs
       \/ fn_in \in BaseInputs
       \/ fn_in \in LevelInputs
       \/ fn_in \in SingleCandleInputs
       \/ fn_in \in EngulfingInputs
       \/ fn_in \in EnhanceInputs
       \/ fn_in \in SrInputs
       \/ fn_in \in ScanTwiceInputs
    /\ fn_out = NoCall

ApplyClassify ==
    /\ fn_in.fn = "classify"
    /\ fn_out = NoCall
    /\ fn_out' = [fn |-> "classify",
                  value |-> ClassifyPatternByContext(fn_in.pattern,
                                                     fn_in.trend_analysis)]
    /\ UNCHANGED <<fn_in, botVars, scanVars, keyVars, gateVars>>

ApplyShouldKeep ==
    /\ fn_in.fn = "keep"
    /\ fn_out = NoCall
    /\ fn_out' = [fn |-> "keep",
                  value |-> ShouldKeepPattern(fn_in.pattern, fn_in.cfg)]
    /\ UNCHANGED <<fn_in, botVars, scanVars, keyVars, gateVars>>

ApplyComposite ==
    /\ fn_in.fn = "composite"
    /\ fn_out = NoCall
    /\ fn_out' = [fn |-> "composite",
                  value |-> CalculateEnhancedStrength(fn_in.c,
                                fn_in.pattern_info, fn_in.sr_levels, fn_in.calc)]
    /\ UNCHANGED <<fn_in, botVars, scanVars, keyVars, gateVars>>

ApplyBodyComparison ==
    /\ fn_in.fn = "body"
    /\ fn_out = NoCall
    /\ fn_out' = [fn |-> "body",
                  a |-> CalculateBodyComparison(fn_in.n, fn_in.a.current_body,
                                                fn_in.a.previous_body),
                  b |-> CalculateBodyComparison(fn_in.n, fn_in.b.current_body,
                                                fn_in.b.previous_body)]
    /\ UNCHANGED <<fn_in, botVars, scanVars, keyVars, gateVars>>

ApplyVolumeSpike ==
    /\ fn_in.fn = "volume"
    /\ fn_out = NoCall
    /\ fn_out' = [fn |-> "volume",
                  a |-> CalculateVolumeSpike(fn_in.n, fn_in.a.current_volume,
                                             fn_in.a.previous_volumes),
                  b |-> CalculateVolumeSpike(fn_in.n, fn_in.b.current_volume,
                                             fn_in.b.previous_volumes)]
    /\ UNCHANGED <<fn_in, botVars, scanVars, keyVars, gateVars>>

ApplyVolatilityStrength ==
    /\ fn_in.fn = "volatility"
    /\ fn_out = NoCall
    /\ fn_out' = [fn |-> "volatility",
                  a |-> CalculateVolatilityStrength(fn_in.n, fn_in.a.current_tr,
                                                    fn_in.a.earlier_tr),
                  b |-> CalculateVolatilityStrength(fn_in.n, fn_in.b.current_tr,
                                                    fn_in.b.earlier_tr)]
    /\ UNCHANGED <<fn_in, botVars, scanVars, keyVars, gateVars>>

ApplyCombineTrend ==
    /\ fn_in.fn = "combine"
    /\ fn_out = NoCall
    /\ fn_out' = [fn |-> "combine",
                  value |-> CombineTrend(fn_in.ema_trend,
                                         fn_in.structure_trend)]
    /\ UNCHANGED <<fn_in, botVars, scanVars, keyVars, gateVars>>

ApplyComprehensiveTrend ==
    /\ fn_in.fn = "trend"
    /\ fn_out = NoCall
    /\ fn_out' = [fn |-> "trend",
                  value |-> GetComprehensiveTrend(fn_in.c, fn_in.trend)]
    /\ UNCHANGED <<fn_in, botVars, scanVars, keyVars, gateVars>>

ApplyClusterLevels ==
    /\ fn_in.fn = "cluster"
    /\ fn_out = NoCall
    /\ fn_out' = [fn |-> "cluster",
                  value |-> ClusterLevels(fn_in.levels, fn_in.current_price)]
    /\ UNCHANGED <<fn_in, botVars, scanVars, keyVars, gateVars>>

ApplyCalculateStrength ==
    /\ fn_in.fn = "base"
    /\ fn_out = NoCall
    /\ fn_out' = [fn |-> "base",
                  value |-> CalculateStrength(fn_in.pattern_id, fn_in.in_trend,
                                fn_in.volume_confirmed, fn_in.ratio_tier)]
    /\ UNCHANGED <<fn_in, botVars, scanVars, keyVars, gateVars>>

ApplyLevelStrength ==
    /\ fn_in.fn = "level"
    /\ fn_out = NoCall
    /\ fn_out' = [fn |-> "level",
                  value |-> CalculateLevelStrength(fn_in.touches,
                                fn_in.bounces, fn_in.breaks)]
    /\ UNCHANGED <<fn_in, botVars, scanVars, keyVars, gateVars>>

ApplyHammerDetect ==
    /\ fn_in.fn = "hammer"
    /\ fn_out = NoCall
    /\ fn_out' = [fn |-> "hammer",
                  value |-> HammerDetect(fn_in.n, fn_in.candle, fn_in.in_trend,
                                         fn_in.volume_confirmed)]
    /\ UNCHANGED <<fn_in, botVars, scanVars, keyVars, gateVars>>

ApplyShootingStarDetect ==
    /\ fn_in.fn = "shooting_star"
    /\ fn_out = NoCall
    /\ fn_out' = [fn |-> "shooting_star",
                  value |-> ShootingStarDetect(fn_in.n, fn_in.candle,
                                fn_in.in_trend, fn_in.volume_confirmed)]
    /\ UNCHANGED <<fn_in, botVars, scanVars, keyVars, gateVars>>

ApplyDojiDetect ==
    /\ fn_in.fn = "doji"
    /\ fn_out = NoCall
    /\ fn_out' = [fn |-> "doji",
                  value |-> DojiDetect(fn_in.n, fn_in.candle, fn_in.in_trend,
                                       fn_in.volume_confirmed)]
    /\ UNCHANGED <<fn_in, botVars, scanVars, keyVars, gateVars>>

ApplyBullishEngulfingDetect ==
    /\ fn_in.fn = "bullish_engulfing"
    /\ fn_out = NoCall
    /\ fn_out' = [fn |-> "bullish_engulfing",
                  value |-> BullishEngulfingDetect(fn_in.n, fn_in.pair.prev,
                                fn_in.pair.curr, fn_in.volume_confirmed)]
    /\ UNCHANGED <<fn_in, botVars, scanVars, keyVars, gateVars>>

ApplyBearishEngulfingDetect ==
    /\ fn_in.fn = "bearish_engulfing"
    /\ fn_out = NoCall
    /\ fn_out' = [fn |-> "bearish_engulfing",
                  value |-> BearishEngulfingDetect(fn_in.n, fn_in.pair.prev,
                                fn_in.pair.curr, fn_in.volume_confirmed)]
    /\ UNCHANGED <<fn_in, botVars, scanVars, keyVars, gateVars>>

ApplyEnhance ==
    /\ fn_in.fn = "enhance"
    /\ fn_out = NoCall
    /\ LET c == [kind |-> "frame", len |-> 50,
                 close |-> fn_in.pattern.candle_close,
                 time |-> fn_in.pattern.candle_time]
       IN  fn_out' = [fn |-> "enhance",
                      value |-> EnhancePatternWithContext(fn_in.pattern,
                                    GetComprehensiveTrend(c, fn_in.trend),
                                    FindSupportResistanceLevels(c, fn_in.sr),
                                    c, fn_in.calc, FALSE).value]
    /\ UNCHANGED <<fn_in, botVars, scanVars, keyVars, gateVars>>

ApplyFindSupportResistanceLevels ==
    /\ fn_in.fn = "sr"
    /\ fn_out = NoCall
    /\ fn_out' = [fn |-> "sr",
                  value |-> SupportResistanceLevels(fn_in.n, fn_in.current_price,
                                PivotsOf(fn_in.highs, Len(PivotPrices), "resistance"),
                                PivotsOf(fn_in.lows, Len(PivotPrices), "support"))]
    /\ UNCHANGED <<fn_in, botVars, scanVars, keyVars, gateVars>>

\* the second call is made on the window as the first call left it
ApplyScanTwice ==
    /\ fn_in.fn = "scan_twice"
    /\ fn_out = NoCall
    /\ LET first == ScanCall(fn_in.entry, fn_in.candles, fn_in.cfg,
                             fn_in.trend, fn_in.sr, fn_in.calc, fn_in.fault)
           second == ScanCall(fn_in.entry, first.candles, fn_in.cfg,
                              fn_in.trend, fn_in.sr, fn_in.calc, fn_in.fault)
       IN  fn_out' = [fn |-> "scan_twice",
                      value |-> [first |-> first.value,
                                 first_raised |-> first.raised,
                                 second |-> second.value,
                                 second_raised |-> second.raised,
                                 candles |-> second.candles]]
    /\ UNCHANGED <<fn_in, botVars, scanVars, keyVars, gateVars>>

NextCalc ==
    \/ ApplyClassify
    \/ ApplyShouldKeep
    \/ ApplyComposite
    \/ ApplyBodyComparison
    \/ ApplyVolumeSpike
    \/ ApplyVolatilityStrength
    \/ ApplyCombineTrend
    \/ ApplyComprehensiveTrend
    \/ ApplyClusterLevels
    \/ ApplyCalculateStrength
    \/ ApplyLevelStrength
    \/ ApplyHammerDetect
    \/ ApplyShootingStarDetect
    \/ ApplyDojiDetect
    \/ ApplyBullishEngulfingDetect
    \/ ApplyBearishEngulfingDetect
    \/ ApplyEnhance
    \/ ApplyFindSupportResistanceLevels
    \/ ApplyScanTwice

SpecCalc == InitCalc /\ [][NextCalc]_vars

-----------------------------------------------------------------------------
(* Claims about the alert cache and the alert loop *)

Fresh(key) == lastAlert[key] # NoTime /\ now - lastAlert[key] < Cooldown

Expired(c, t) == {k \in DOMAIN c : Age(c, k, t) > 2 * Cooldown}

\* C1: whenever process_patterns sends an alert for a key, the alert sent
\* before it for the same key, if there was one, was sent at least Cooldown
\* earlier (every read and write of the file succeeding, restarts included).
C1_AtMostOncePerCooldown ==
    [][(pc = "processing" /\ alerts_sent' = alerts_sent + 1) =>
         LET key == GenerateAlertKey(Head(queue))
         IN  lastAlert[key] = NoTime \/ now' - lastAlert[key] >= Cooldown]_vars

\* A second alert for a key has been sent and recorded over the first.
C1_Witness ==
    /\ last_op.op = "add"
    /\ last_op.replaced
    /\ \E k \in BotKeys : lastAlert[k] = now /\ now >= Cooldown

\* C2: is_duplicate(p) is true exactly when p's key was added less than
\* Cooldown ago: false before any add, true from the add until the age
\* reaches Cooldown, false from then on.
C2_DuplicateIffFresh ==
    pc # "down" =>
        \A p \in BotSignals :
            IsDuplicate(cache, p, now) <=> Fresh(GenerateAlertKey(p))

\* One key is a duplicate while another, added Cooldown or more ago and
\* still in the cache, is not.
C2_Witness ==
    /\ pc # "down"
    /\ \E p, q \in BotSignals :
          /\ IsDuplicate(cache, p, now)
          /\ GenerateAlertKey(q) \in DOMAIN cache
          /\ Age(cache, GenerateAlertKey(q), now) >= Cooldown
          /\ ~IsDuplicate(cache, q, now)

\* C3: a new AlertCache built over the file holds exactly the file's records
\* of age at most 2 x Cooldown, unchanged; the file then holds no older
\* record; a key added less than Cooldown ago is a duplicate after it.
C3_LoadSweeps ==
    [][(pc = "down" /\ pc' = "idle") =>
         /\ DOMAIN cache' = (DOMAIN store.data) \ Expired(store.data, now)
         /\ \A k \in DOMAIN cache' : cache'[k] = store.data[k]
         /\ Expired(store'.data, now') = {}
         /\ \A p \in BotSignals :
               Fresh(GenerateAlertKey(p)) => IsDuplicate(cache', p, now')]_vars

\* A restarted bot has kept one record and swept another.
C3_Witness ==
    /\ pc = "idle"
    /\ last_op.op = "load"
    /\ cache # EmptyCache
    /\ \E k \in BotKeys :
          /\ lastAlert[k] # NoTime
          /\ k \notin DOMAIN cache
          /\ k \notin DOMAIN store.data

\* C4: a process that dies during _save_cache leaves the file whole, with
\* its previous or its new content.
C4_AtomicWrite ==
    pc = "down" => store.state # "corrupt"

\* C5: while the bot keeps running, a record older than 2 x Cooldown is
\* eventually gone from the cache and from the file.
C5_PeriodicSweep ==
    \A k \in BotKeys :
        [](k \in Expired(cache, now) =>
             <>(k \notin DOMAIN cache /\ k \notin DOMAIN store.data))

\* C6: an add_alert whose file write fails does not raise and leaves the
\* record in the cache, a duplicate from then on; a write that succeeds
\* puts the whole cache in the file; an AlertCache whose read of the file
\* fails starts empty and does not raise.
C6_PersistenceFailureNotFatal ==
    [][/\ (pc = "processing" /\ alerts_sent' = alerts_sent + 1
           /\ last_op'.io \in {"fail_open", "fail_write"}) =>
             /\ ~last_op'.raised
             /\ pc' # "down"
             /\ GenerateAlertKey(Head(queue)) \in DOMAIN cache'
             /\ IsDuplicate(cache', Head(queue), now')
       /\ (pc = "processing" /\ alerts_sent' = alerts_sent + 1
           /\ last_op'.io = "ok") =>
             /\ store'.state = "ok"
             /\ store'.data = cache'
       /\ (pc = "down" /\ now' = now /\ last_op'.rd = "fail") =>
             /\ ~last_op'.raised
             /\ pc' = "idle"
             /\ cache' = EmptyCache]_vars

\* A write failed after truncating the file; the bot runs on with the
\* records in memory.
C6_Witness ==
    /\ pc \in {"idle", "processing"}
    /\ last_op.op = "add"
    /\ last_op.io = "fail_write"
    /\ store.state = "corrupt"
    /\ Cardinality(DOMAIN cache) = 2

-----------------------------------------------------------------------------
(* Claims about the alert key and the scan pipeline *)

SameFour(p, q) ==
    /\ p.symbol = q.symbol
    /\ p.timeframe = q.timeframe
    /\ p.pattern = q.pattern
    /\ p.candle_close = q.candle_close

\* C7: two signals with the same symbol, timeframe, pattern and candle close
\* have the same key, whatever their candle time, strength and enrichment;
\* and the key of a signal is the one computed when it was detected, also
\* after the signal has been enriched.
C7_KeyOfFourFields ==
    /\ SameFour(pattern_a, pattern_b) =>
           GenerateAlertKey(pattern_a) = GenerateAlertKey(pattern_b)
    /\ GenerateAlertKey(pattern_a) = key_a

\* An enriched signal and a plain one agree on the four fields and differ in
\* candle time and strength.
C7_Witness ==
    /\ "classification" \in DOMAIN pattern_a
    /\ "classification" \notin DOMAIN pattern_b
    /\ SameFour(pattern_a, pattern_b)
    /\ pattern_a.candle_time # pattern_b.candle_time
    /\ pattern_a.strength # pattern_b.strength
    /\ pattern_a.strength # pattern_a.original_strength

\* C8: a scan that has returned has raised nothing and has returned a list,
\* whatever the window and whatever the detectors and the analyzers did.
C8_ScanNeverRaises ==
    scan_pc = "done" =>
        /\ ~scan_note.raised
        /\ DOMAIN detected = 1..Len(detected)

\* The trend analyzer and a detector raised, and the scan returned a match.
C8_Witness ==
    /\ scan_pc = "done"
    /\ scan_note.entry = "scan_patterns_with_context"
    /\ scan_note.cause = "trend"
    /\ \E n \in EnabledNames : candles.detect[n].kind = "raise"
    /\ detected # <<>>

\* the window with every raising detector finding nothing instead
Quiet(c) ==
    [c EXCEPT !.detect = [n \in EnabledNames |->
                              IF c.detect[n].kind = "raise"
                              THEN [kind |-> "none"] ELSE c.detect[n]]]

\* C9: scan_patterns on a window on which detectors raise returns what it
\* returns on the window with those detectors finding nothing, and every
\* match of another detector is in the result as the detector reported it.
C9_DetectorFailureIsolated ==
    (scan_pc = "done" /\ scan_note.entry = "scan_patterns" /\ ~IsEmpty(candles)) =>
        /\ detected = ScanPatterns(Quiet(candles), "EURUSD", "H1").value
        /\ \A n \in EnabledNames :
              (candles.detect[n].kind = "hit" /\ candles.len >= RequiredCandles(n)) =>
                  \E i \in 1..Len(detected) :
                      detected[i] = Tag(Detect(candles, n).value, "EURUSD", "H1", n)

\* The second detector raised between two that found their patterns.
C9_Witness ==
    /\ scan_pc = "done"
    /\ scan_note.entry = "scan_patterns"
    /\ ~IsEmpty(candles)
    /\ candles.detect[Enabled[1]].kind = "hit"
    /\ candles.detect[Enabled[2]].kind = "raise"
    /\ candles.detect[Enabled[3]].kind = "hit"
    /\ Len(detected) = 2

\* C10: scan_patterns_with_context on a window shorter than
\* max(50, ema_long_period), or with the trend analysis, the SR analysis or
\* the enrichment of a match raising, returns what scan_patterns returns on
\* the same window, each match with the fields of a plain match only.
C10_EnrichmentFallback ==
    (/\ scan_pc = "done"
     /\ scan_note.entry = "scan_patterns_with_context"
     /\ ~IsEmpty(candles)
     /\ \/ candles.len < Max(50, EmaLongPeriod)
        \/ scan_note.cause \in {"trend", "sr", "enrich"}) =>
        /\ detected = ScanPatterns(candles, "EURUSD", "H1").value
        /\ \A i \in 1..Len(detected) : DOMAIN detected[i] = BasicFields

\* The enrichment of a match raised on a long window with two matches.
C10_Witness ==
    /\ scan_pc = "done"
    /\ scan_note.entry = "scan_patterns_with_context"
    /\ scan_note.cause = "enrich"
    /\ candles.len >= 50
    /\ Len(detected) = 2

-----------------------------------------------------------------------------
(* Claims about the analysis functions *)

\* C11: the classification follows the table. A bullish match in an uptrend
\* and a bearish one in a downtrend are trend_continuation; a bullish match
\* in a downtrend and a bearish one in an uptrend are trend_reversal; any
\* other match in a sideways trend is range_trading; every remaining
\* combination (a neutral match in a trend, any match with the direction
\* unknown) is neutral.
C11_ClassificationTable ==
    fn_out.fn = "classify" =>
        LET p == fn_in.pattern.type
            d == fn_in.trend_analysis.direction
            with_trend == \/ p = "bullish" /\ d = "uptrend"
                          \/ p = "bearish" /\ d = "downtrend"
            against_trend == \/ p = "bullish" /\ d = "downtrend"
                             \/ p = "bearish" /\ d = "uptrend"
        IN  /\ fn_out.value = "trend_continuation" <=> with_trend
            /\ fn_out.value = "trend_reversal" <=> against_trend
            /\ fn_out.value = "range_trading" <=> d = "sideways"
            /\ fn_out.value = "neutral" <=>
                   ~with_trend /\ ~against_trend /\ d # "sideways"

C11_Witness ==
    /\ fn_out.fn = "classify"
    /\ fn_in.pattern.type = "bearish"
    /\ fn_in.trend_analysis.direction = "unknown"
    /\ fn_out.value = "neutral"

\* Of the match given to _should_keep_pattern
IsReversal == fn_in.pattern.classification = "trend_reversal"

NearLevel ==
    fn_in.pattern.sr_context.near_resistance
    \/ fn_in.pattern.sr_context.near_support

StrongTrend == fn_in.pattern.trend_context.strength > 600

\* C12: with trend filtering enabled, a reversal match in a trend stronger
\* than 0.6 and near no level is dropped when reversal patterns are not
\* allowed, and the trend filtering does not drop it when they are allowed;
\* a match that is in no strong trend, or is no reversal, or is near a
\* level, is never dropped by the trend filtering.
C12_TrendFilter ==
    fn_out.fn = "keep" /\ fn_in.cfg.enable_trend_filtering =>
        /\ StrongTrend /\ IsReversal /\ ~NearLevel
               /\ ~fn_in.cfg.allow_reversal_patterns => ~fn_out.value.keep
        /\ StrongTrend /\ IsReversal /\ ~NearLevel
               /\ fn_in.cfg.allow_reversal_patterns => fn_out.value.by # "trend"
        /\ ~(StrongTrend /\ IsReversal /\ ~NearLevel) =>
               fn_out.value.by # "trend"

\* C14 as the specification states it: with SR filtering enabled, every
\* reversal match near no level that reaches the SR rule has its strength
\* multiplied by 0.7 once and is not dropped by the rule; every other match
\* keeps its strength.
C14_SrPenaltyAnyReversal ==
    fn_out.fn = "keep" /\ fn_in.cfg.enable_sr_filtering
        /\ fn_out.value.by # "trend" =>
        /\ IsReversal /\ ~NearLevel =>
               fn_out.value.pattern.strength = (fn_in.pattern.strength * 7) \div 10
        /\ ~(IsReversal /\ ~NearLevel) =>
               fn_out.value.pattern.strength = fn_in.pattern.strength

\* C14: with SR filtering enabled, a reversal match near no level whose
\* detector is in the configured list of reversal pattern names, and that
\* reaches the SR rule, has its strength multiplied by 0.7 exactly once, and
\* the rule itself drops nothing (a match is dropped only by the trend
\* filtering or by the strength threshold on its enhanced strength); every
\* other match keeps its strength.
C14_SrPenalty ==
    fn_out.fn = "keep" /\ fn_in.cfg.enable_sr_filtering
        /\ fn_out.value.by # "trend" =>
        LET listed == fn_in.pattern.pattern_id
                          \in fn_in.cfg.reversal_pattern_names
        IN  /\ IsReversal /\ ~NearLevel /\ listed =>
                   fn_out.value.pattern.strength
                       = (fn_in.pattern.strength * 7) \div 10
            /\ ~(IsReversal /\ ~NearLevel /\ listed) =>
                   fn_out.value.pattern.strength = fn_in.pattern.strength
            /\ ~fn_out.value.keep =>
                   fn_in.pattern.enhanced_strength < MinEnhancedStrength

C14_Witness ==
    /\ fn_out.fn = "keep"
    /\ fn_in.cfg.enable_sr_filtering
    /\ IsReversal /\ ~NearLevel
    /\ fn_in.pattern.pattern_id \in fn_in.cfg.reversal_pattern_names
    /\ fn_in.pattern.strength = 580
    /\ fn_out.value.keep
    /\ fn_out.value.pattern.strength = 406

\* C13: every signal that scan_patterns_with_context returns on the
\* enriched path carries a strength of at least the configured minimum,
\* whatever the filtering switches are and after any 0.7 penalty.
C13_MinimumStrength ==
    (/\ scan_pc = "done"
     /\ scan_note.entry = "scan_patterns_with_context"
     /\ scan_note.path = "enriched") =>
        \A i \in 1..Len(detected) :
            detected[i].strength >= MinEnhancedStrength

InUnit(x) == 0 <= x /\ x <= 1000

\* C15: every detector base strength, every component and total of the
\* strength calculator, the strength of every enriched match as
\* _should_keep_pattern leaves it (after the 0.7 penalty too), and the trend
\* strength and confidence lie in 0..1; every level strength, before and
\* after clustering, lies in 0..5.
C15_Ranges ==
    /\ fn_out.fn \in {"base", "composite"} => InUnit(fn_out.value)
    /\ fn_out.fn \in {"body", "volume", "volatility"} =>
           InUnit(fn_out.a) /\ InUnit(fn_out.b)
    /\ fn_out.fn = "keep" => InUnit(fn_out.value.pattern.strength)
    /\ fn_out.fn \in {"combine", "trend"} =>
           InUnit(fn_out.value.strength) /\ InUnit(fn_out.value.confidence)
    /\ fn_out.fn = "level" => 0 <= fn_out.value /\ fn_out.value <= 5000
    /\ fn_out.fn = "cluster" =>
           \A k \in 1..Len(fn_out.value) :
               0 <= fn_out.value[k].strength /\ fn_out.value[k].strength <= 5000

\* A level touched and bounced off by all 20 candles: 16 kept to 5.
C15_Witness ==
    /\ fn_out.fn = "level"
    /\ fn_in.touches = 20 /\ fn_in.bounces = 20 /\ fn_in.breaks = 0
    /\ fn_out.value = 5000

\* The weighted sum of calculate_enhanced_strength's inputs, in millionths
WeightedSum ==
    fn_in.pattern_info.strength * 400 + fn_in.calc.body_strength * 200
    + fn_in.calc.volume_strength * 200 + fn_in.calc.volatility_strength * 100

\* Some supplied level lies within 0.001 of the close, measured on the close.
SomeLevelNear ==
    \E i \in 1..Len(fn_in.sr_levels) :
        /\ (fn_in.c.close - fn_in.sr_levels[i]) * 1000 <= fn_in.c.close
        /\ (fn_in.sr_levels[i] - fn_in.c.close) * 1000 <= fn_in.c.close

\* C16: with at least 20 candles the composite is 0.4 base + 0.2 body
\* + 0.2 volume + 0.1 volatility, plus a flat 0.2 exactly when the close is
\* within the proximity threshold of at least one supplied level (the same
\* with one such level or several), the whole clamped to 0..1.
C16_CompositeScore ==
    fn_out.fn = "composite" /\ fn_in.c.len >= 20 =>
        LET raw == WeightedSum + (IF SomeLevelNear THEN 200000 ELSE 0)
        IN  fn_out.value * 1000 = (IF raw > 1000000 THEN 1000000
                                   ELSE IF raw < 0 THEN 0 ELSE raw)

\* Two levels near the close, and a sum of 1.1 clamped to 1.
C16_Witness ==
    /\ fn_out.fn = "composite"
    /\ fn_in.c.len = 20
    /\ fn_in.sr_levels = <<9995, 10005>>
    /\ WeightedSum = 900000
    /\ fn_out.value = 1000

\* The driving ratio of window a is at most that of window b: num_a / den_a
\* <= num_b / den_b, with a ratio over 0 taken as larger than every other.
RatioLeq(num_a, den_a, num_b, den_b) ==
    IF den_b = 0 THEN TRUE
    ELSE den_a # 0 /\ num_a * den_b <= num_b * den_a

\* C17 as the specification states it: each component is non-decreasing in
\* its driving ratio, down to a denominator of zero, where a positive
\* numerator makes the ratio larger than any other.
C17_MonotoneToZero ==
    /\ fn_out.fn = "body" /\ fn_in.a.current_body > 0 /\ fn_in.b.current_body > 0
           /\ RatioLeq(fn_in.a.current_body, fn_in.a.previous_body,
                       fn_in.b.current_body, fn_in.b.previous_body)
           => fn_out.a <= fn_out.b
    /\ fn_out.fn = "volume" /\ fn_in.a.current_volume > 0
           /\ fn_in.b.current_volume > 0
           /\ RatioLeq(fn_in.a.current_volume, fn_in.a.previous_volumes,
                       fn_in.b.current_volume, fn_in.b.previous_volumes)
           => fn_out.a <= fn_out.b
    /\ fn_out.fn = "volatility" /\ fn_in.a.current_tr > 0 /\ fn_in.b.current_tr > 0
           /\ RatioLeq(fn_in.a.current_tr, fn_in.a.current_tr + fn_in.a.earlier_tr,
                       fn_in.b.current_tr, fn_in.b.current_tr + fn_in.b.earlier_tr)
           => fn_out.a <= fn_out.b

\* C17: over windows whose denominator (previous body, mean of the ten
\* previous volumes, 14-period ATR) is positive, each component is
\* non-decreasing in its driving ratio, across every tier bound; on a
\* window long enough whose denominator is zero the component is 0.5,
\* whatever the numerator.
C17_MonotoneComponents ==
    /\ fn_out.fn = "body" =>
           /\ fn_in.a.previous_body > 0 /\ fn_in.b.previous_body > 0
                  /\ fn_in.a.current_body * fn_in.b.previous_body
                         <= fn_in.b.current_body * fn_in.a.previous_body
                  => fn_out.a <= fn_out.b
           /\ fn_in.a.previous_body = 0 => fn_out.a = 500
    /\ fn_out.fn = "volume" =>
           /\ fn_in.a.previous_volumes > 0 /\ fn_in.b.previous_volumes > 0
                  /\ fn_in.a.current_volume * fn_in.b.previous_volumes
                         <= fn_in.b.current_volume * fn_in.a.previous_volumes
                  => fn_out.a <= fn_out.b
           /\ fn_in.n >= 11 /\ fn_in.a.previous_volumes = 0 => fn_out.a = 500
    /\ fn_out.fn = "volatility" =>
           LET atr_a == fn_in.a.current_tr + fn_in.a.earlier_tr
               atr_b == fn_in.b.current_tr + fn_in.b.earlier_tr
           IN  /\ atr_a > 0 /\ atr_b > 0
                      /\ fn_in.a.current_tr * atr_b <= fn_in.b.current_tr * atr_a
                      => fn_out.a <= fn_out.b
               /\ fn_in.n >= 15 /\ atr_a = 0 => fn_out.a = 500

\* A volume ratio of 2.0 against one of 2.5: 0.8 and 0.9.
C17_Witness ==
    /\ fn_out.fn = "volume"
    /\ fn_in.n = 20
    /\ fn_in.a = [current_volume |-> 20, previous_volumes |-> 100]
    /\ fn_in.b = [current_volume |-> 25, previous_volumes |-> 100]
    /\ fn_out.a = 800
    /\ fn_out.b = 900

\* The combined direction value of the two sub-trends, in tenths: uptrend
\* +1, downtrend -1, sideways and unknown 0, weighted 0.7 and 0.3.
CombinedTenths ==
    LET val(t) == IF t.direction = "uptrend" THEN 1
                  ELSE IF t.direction = "downtrend" THEN 0 - 1 ELSE 0
    IN  7 * val(fn_in.ema_trend) + 3 * val(fn_in.structure_trend)

\* C18: for every pair of sub-trend directions, the final direction is
\* uptrend exactly when the combined value exceeds 0.3, downtrend exactly
\* when it is below -0.3, and sideways otherwise; the combined strength is
\* 0.7 of the EMA strength plus 0.3 of the structure strength.
C18_TrendCombination ==
    fn_out.fn = "combine" =>
        /\ fn_out.value.direction = "uptrend" <=> CombinedTenths > 3
        /\ fn_out.value.direction = "downtrend" <=> CombinedTenths < 0 - 3
        /\ fn_out.value.direction = "sideways" <=>
               (CombinedTenths <= 3 /\ CombinedTenths >= 0 - 3)
        /\ fn_out.value.strength * 10 =
               7 * fn_in.ema_trend.strength + 3 * fn_in.structure_trend.strength
                   - ((7 * fn_in.ema_trend.strength
                       + 3 * fn_in.structure_trend.strength) % 10)

\* A sideways EMA trend with a rising structure: the combined value is 0.3
\* itself and the direction stays sideways.
C18_Witness ==
    /\ fn_out.fn = "combine"
    /\ fn_in.ema_trend.direction = "sideways"
    /\ fn_in.structure_trend.direction = "uptrend"
    /\ fn_out.value.direction = "sideways"

\* C19: on a window shorter than the long EMA span the trend result is
\* direction unknown, strength 0, confidence 0, and nothing is raised.
C19_InsufficientHistory ==
    (/\ fn_out.fn = "trend"
     /\ fn_in.trend.kind = "ok"
     /\ fn_in.c.len < EmaLongPeriod) =>
        /\ ~fn_out.value.raised
        /\ fn_out.value.direction = "unknown"
        /\ fn_out.value.strength = 0
        /\ fn_out.value.confidence = 0

\* Two prices are within the proximity threshold, 0.001 of the current
\* price, of each other.
WithinThreshold(p, q) ==
    (p - q) * 1000 <= fn_in.current_price
    /\ (q - p) * 1000 <= fn_in.current_price

\* The input levels merged into the k-th output cluster: those at or above
\* its price and below the price of every higher cluster.
Members(k) ==
    {i \in 1..Len(fn_in.levels) :
        /\ fn_out.value[k].price <= fn_in.levels[i].price
        /\ \A m \in 1..Len(fn_out.value) :
               fn_out.value[m].price <= fn_in.levels[i].price
                   => fn_out.value[m].price <= fn_out.value[k].price}

RECURSIVE TouchesOf(_)
TouchesOf(S) ==
    IF S = {} THEN 0
    ELSE LET i == CHOOSE j \in S : TRUE
         IN  fn_in.levels[i].touches + TouchesOf(S \ {i})

\* C20 as it reads for any input list: any two input levels within the
\* threshold of each other end in one cluster.
C20_ClosePairsShareCluster ==
    fn_out.fn = "cluster" =>
        \A i, j \in 1..Len(fn_in.levels) :
            WithinThreshold(fn_in.levels[i].price, fn_in.levels[j].price) =>
                \E k \in 1..Len(fn_out.value) :
                    i \in Members(k) /\ j \in Members(k)

\* C20: for any input list, every level is merged into one cluster, whose
\* price (that of its lowest member) it is within the proximity threshold
\* of, and a level at or above a cluster's price and within the threshold
\* of it is merged into that cluster; each cluster's touches are the sum of
\* the touches of the levels merged into it and its strength the largest of
\* their strengths; a list of two levels within the threshold of each other
\* gives exactly one cluster.
C20_Clustering ==
    fn_out.fn = "cluster" =>
        /\ \A i \in 1..Len(fn_in.levels) :
               \E k \in 1..Len(fn_out.value) :
                   /\ i \in Members(k)
                   /\ WithinThreshold(fn_in.levels[i].price,
                                      fn_out.value[k].price)
        /\ \A k \in 1..Len(fn_out.value) :
               /\ Members(k) # {}
               /\ \A i \in 1..Len(fn_in.levels) :
                      (/\ fn_in.levels[i].price >= fn_out.value[k].price
                       /\ WithinThreshold(fn_in.levels[i].price,
                                          fn_out.value[k].price))
                          => i \in Members(k)
               /\ fn_out.value[k].touches = TouchesOf(Members(k))
               /\ \E i \in Members(k) :
                      fn_out.value[k].strength = fn_in.levels[i].strength
               /\ \A i \in Members(k) :
                      fn_out.value[k].strength >= fn_in.levels[i].strength
        /\ (/\ Len(fn_in.levels) = 2
            /\ WithinThreshold(fn_in.levels[1].price, fn_in.levels[2].price))
               => Len(fn_out.value) = 1

\* Two levels 8 apart, the higher one first, in one cluster of 5 touches.
C20_Witness ==
    /\ fn_out.fn = "cluster"
    /\ Len(fn_in.levels) = 2
    /\ fn_in.levels[1].price = 10008 /\ fn_in.levels[1].touches = 3
    /\ fn_in.levels[2].price = 10000 /\ fn_in.levels[2].touches = 2
    /\ Len(fn_out.value) = 1
    /\ fn_out.value[1].price = 10000
    /\ fn_out.value[1].touches = 5
    /\ fn_out.value[1].strength = 2400

\* C28: the final direction of get_comprehensive_trend is uptrend exactly
\* when the EMA analysis says uptrend, and downtrend exactly when it says
\* downtrend, whatever the structure analysis says.
C28_EmaDecidesDirection ==
    fn_out.fn = "combine" =>
        /\ fn_out.value.direction = "uptrend"
               <=> fn_in.ema_trend.direction = "uptrend"
        /\ fn_out.value.direction = "downtrend"
               <=> fn_in.ema_trend.direction = "downtrend"

\* A rising EMA trend against a falling structure: uptrend.
C28_Witness ==
    /\ fn_out.fn = "combine"
    /\ fn_in.ema_trend.direction = "uptrend"
    /\ fn_in.structure_trend.direction = "downtrend"
    /\ fn_out.value.direction = "uptrend"

\* C30: in the output of cluster_levels the prices of two distinct clusters
\* differ by more than the proximity threshold, so that an input level is
\* within the threshold of at most one of the clusters that exist when it is
\* reached (those at or below its price); there are never more clusters
\* than input levels.
C30_ClusterSeparation ==
    fn_out.fn = "cluster" =>
        /\ \A k, m \in 1..Len(fn_out.value) :
               k # m => ~WithinThreshold(fn_out.value[k].price,
                                         fn_out.value[m].price)
        /\ \A i \in 1..Len(fn_in.levels) :
               Cardinality({k \in 1..Len(fn_out.value) :
                   /\ fn_out.value[k].price <= fn_in.levels[i].price
                   /\ WithinThreshold(fn_in.levels[i].price,
                                      fn_out.value[k].price)}) <= 1
        /\ Len(fn_out.value) <= Len(fn_in.levels)

\* Three levels in two clusters, 16 apart.
C30_Witness ==
    /\ fn_out.fn = "cluster"
    /\ Len(fn_in.levels) = 3
    /\ Len(fn_out.value) = 2
    /\ fn_out.value[1].price = 10000
    /\ fn_out.value[2].price = 10016

-----------------------------------------------------------------------------
(* Claims about the detectors *)

\* Of the candle given to a single-candle detector, in units of its range
CandleBody == Abs(fn_in.candle.close - fn_in.candle.open)

CandleRange == fn_in.candle.high - fn_in.candle.low

CandleUpper ==
    fn_in.candle.high
    - (IF fn_in.candle.open > fn_in.candle.close THEN fn_in.candle.open
       ELSE fn_in.candle.close)

CandleLower ==
    (IF fn_in.candle.open < fn_in.candle.close THEN fn_in.candle.open
     ELSE fn_in.candle.close) - fn_in.candle.low

\* The geometry of a hammer when `long` is the lower shadow and `short` the
\* upper one, of a shooting star the other way round.
ReversalGeometry(long, short) ==
    /\ CandleRange > 0
    /\ 100 * CandleBody <= 25 * CandleRange
    /\ IF CandleBody = 0 THEN 100 * long >= 60 * CandleRange
       ELSE long >= 2 * CandleBody
    /\ 100 * short <= 10 * CandleRange

\* C23: on the last candle Hammer matches exactly when the range is
\* positive, the body is at most 25% of the range, the lower shadow is at
\* least twice the body (60% of the range when the body is 0) and the upper
\* shadow is at most 10% of the range, and the match is bullish whatever the
\* colour of the candle; ShootingStar is the mirror image, bearish. The
\* candle 1.2000 / 1.2008 / 1.1950 / 1.2005 is a bullish Hammer.
C23_HammerGeometry ==
    /\ fn_out.fn = "hammer" /\ fn_in.n >= 1 =>
           /\ fn_out.value.kind = "hit" <=> ReversalGeometry(CandleLower, CandleUpper)
           /\ fn_out.value.kind = "hit" => fn_out.value.type = "bullish"
           /\ fn_in.candle.open = 12000 => fn_out.value.kind = "hit"
    /\ fn_out.fn = "shooting_star" /\ fn_in.n >= 1 =>
           /\ fn_out.value.kind = "hit" <=> ReversalGeometry(CandleUpper, CandleLower)
           /\ fn_out.value.kind = "hit" => fn_out.value.type = "bearish"

\* A red hammer: it opens at the high and closes a quarter below.
C23_Witness ==
    /\ fn_out.fn = "hammer"
    /\ fn_in.candle.open = 20 /\ fn_in.candle.close = 15
    /\ fn_in.candle.high = 20 /\ fn_in.candle.low = 0
    /\ fn_out.value.kind = "hit"
    /\ fn_out.value.type = "bullish"

\* C24: on a window of at least 2 candles BullishEngulfing matches exactly
\* when the prior candle closed below its open, the current one closed
\* above its open, and the current body strictly contains the prior one;
\* the match is bullish with a base strength of at least 0.5.
\* BearishEngulfing is symmetric. The pair 1.1050-1.1020, 1.1015-1.1065
\* matches.
C24_Engulfing ==
    LET prev == fn_in.pair.prev
        curr == fn_in.pair.curr
        contains ==
            /\ \E lo \in {curr.open, curr.close} : lo < prev.open /\ lo < prev.close
            /\ \E hi \in {curr.open, curr.close} : hi > prev.open /\ hi > prev.close
    IN  /\ fn_out.fn = "bullish_engulfing" /\ fn_in.n >= 2 =>
               /\ fn_out.value.kind = "hit" <=>
                      (prev.close < prev.open /\ curr.close > curr.open
                       /\ contains)
               /\ fn_out.value.kind = "hit" =>
                      fn_out.value.type = "bullish" /\ fn_out.value.strength >= 500
               /\ prev.open = 11050 => fn_out.value.kind = "hit"
        /\ fn_out.fn = "bearish_engulfing" /\ fn_in.n >= 2 =>
               /\ fn_out.value.kind = "hit" <=>
                      (prev.close > prev.open /\ curr.close < curr.open
                       /\ contains)
               /\ fn_out.value.kind = "hit" =>
                      fn_out.value.type = "bearish" /\ fn_out.value.strength >= 500

C24_Witness ==
    /\ fn_out.fn = "bullish_engulfing"
    /\ fn_in.n = 2
    /\ fn_in.pair.prev.open = 11050 /\ fn_in.pair.prev.close = 11020
    /\ fn_in.pair.curr.open = 11015 /\ fn_in.pair.curr.close = 11065
    /\ fn_out.value.kind = "hit"
    /\ fn_out.value.type = "bullish"

C25_SrBonusReachesScore ==
    LET close == fn_in.pattern.candle_close
        within(level) == level # 0 /\ Abs(close - level) * 1000 <= close
        weighted == (fn_in.pattern.strength * 400
                     + fn_in.calc.body_strength * 200
                     + fn_in.calc.volume_strength * 200
                     + fn_in.calc.volatility_strength * 100) \div 1000
    IN  fn_out.fn = "enhance"
        /\ (within(fn_in.sr.nearest_support)
            \/ within(fn_in.sr.nearest_resistance))
        => fn_out.value.enhanced_strength = Min(weighted + 200, 1000)

\* The clusters of one side of the window given to
\* find_support_resistance_levels
ClustersOf(mask, type) ==
    ClusterLevels(KeepTouched(PivotsOf(mask, Len(PivotPrices), type)),
                  fn_in.current_price)

\* `levels` holds at most 5 of `clusters`, the nearest ones, nearest first
NearestFirst(levels, clusters) ==
    /\ Len(levels) <= 5
    /\ Len(levels) = Len(clusters) \/ Len(levels) = 5
    /\ \A i \in 1..Len(levels) : \E j \in 1..Len(clusters) : levels[i] = clusters[j]
    /\ \A i, j \in 1..Len(levels) :
           i < j => levels[i].distance_from_current
                        <= levels[j].distance_from_current
    /\ \A j \in 1..Len(clusters) :
           (\A i \in 1..Len(levels) : levels[i] # clusters[j]) =>
               \A i \in 1..Len(levels) :
                   levels[i].distance_from_current
                       <= clusters[j].distance_from_current

\* `nearest` is the cluster of `side` (the clusters strictly below the price
\* or strictly above it) nearest to the price, None when the side is empty
NearestOf(nearest, side) ==
    IF side = {} THEN nearest = <<>>
    ELSE /\ Len(nearest) = 1
         /\ nearest[1] \in side
         /\ \A x \in side :
                nearest[1].distance_from_current <= x.distance_from_current

\* C21: find_support_resistance_levels returns at most 5 support and at
\* most 5 resistance clusters, each list in ascending distance from the
\* current price; nearest_support is the support cluster nearest to the
\* price among those strictly below it, None when there is none, and
\* nearest_resistance the nearest among those strictly above.
C21_SrOrdering ==
    fn_out.fn = "sr" /\ fn_in.n >= 20 =>
        LET supports == ClustersOf(fn_in.lows, "support")
            resistances == ClustersOf(fn_in.highs, "resistance")
        IN  /\ NearestFirst(fn_out.value.support_levels, supports)
            /\ NearestFirst(fn_out.value.resistance_levels, resistances)
            /\ NearestOf(fn_out.value.nearest_support,
                         {supports[j] : j \in {k \in 1..Len(supports) :
                              supports[k].price < fn_in.current_price}})
            /\ NearestOf(fn_out.value.nearest_resistance,
                         {resistances[j] : j \in {k \in 1..Len(resistances) :
                              resistances[k].price > fn_in.current_price}})

\* Six resistance clusters found and five returned, the nearest at the
\* current price, the nearest resistance being the second of the list.
C21_Witness ==
    /\ fn_out.fn = "sr"
    /\ fn_in.n = 20
    /\ Len(ClustersOf(fn_in.highs, "resistance")) = 6
    /\ Len(fn_out.value.resistance_levels) = 5
    /\ fn_out.value.resistance_levels[1].price = 10000
    /\ Len(fn_out.value.nearest_resistance) = 1
    /\ fn_out.value.nearest_resistance[1].price = 10030
    /\ fn_out.value.nearest_support = <<>>

-----------------------------------------------------------------------------
(* Claims about the loop of the bot *)

\* C27: in process_patterns a pattern is recorded only after its send
\* returned true in the same pass: a step of the loop that changes the
\* cache or the store is one whose send succeeded; when the send returns
\* false or raises, the cache and the store are left as they were, so the
\* signal is not suppressed later; and the counter grows by one exactly
\* when a record is added, so alerts_sent is the number of records added.
C27_RecordOnlyAfterSend ==
    [][pc = "processing" /\ now' = now /\ pc' # "down" =>
          LET pattern == Head(queue)
              key == GenerateAlertKey(pattern)
              recorded == /\ key \in DOMAIN cache'
                          /\ key \in DOMAIN cache => cache'[key] # cache[key]
          IN  /\ (\E io \in IOAll : \/ ProcessOne("false", io)
                                    \/ ProcessOne("raise", io)) =>
                     /\ UNCHANGED <<cache, store, alerts_sent>>
                     /\ IsDuplicate(cache', pattern, now')
                            <=> IsDuplicate(cache, pattern, now)
              /\ cache' # cache \/ store' # store =>
                     \E io \in IOAll : ProcessOne("true", io)
              /\ recorded <=> cache' # cache
              /\ alerts_sent' = alerts_sent + (IF recorded THEN 1 ELSE 0)
      ]_vars

\* A pass of two patterns, both sent and recorded: two records, two alerts
\* counted.
C27_Witness ==
    /\ pc = "idle"
    /\ last_op.op = "add"
    /\ alerts_sent = 2
    /\ \E k \in DOMAIN cache : cache[k].timestamp = IsoFormat(now)
    /\ Cardinality(DOMAIN cache) = 2
\* C26: for every pair the recorded last candle time never decreases, and
\* is_new_candle is true at most once for a candle time of a pair: when it
\* is true the time is newer than every time it was true for before, and it
\* is recorded at once, whether or not the scan that follows gets its data
\* or raises; so no candle is scanned twice by one process, a candle whose
\* scan failed included.
C26_NewCandleGating ==
    [][/\ \A k \in DOMAIN last_candle_times :
              /\ k \in DOMAIN last_candle_times'
              /\ last_candle_times'[k] >= last_candle_times[k]
       /\ \A k \in CandleKeys :
              /\ \A t \in DOMAIN scanned'[k] : scanned'[k][t] = 1
              /\ \A t \in DOMAIN scanned'[k] \ DOMAIN scanned[k] :
                     /\ \A u \in DOMAIN scanned[k] : u < t
                     /\ last_candle_times'[k] = t
              /\ scanned'[k] # EmptyCache =>
                     /\ k \in DOMAIN last_candle_times'
                     /\ \A t \in DOMAIN scanned'[k] :
                            t <= last_candle_times'[k]
      ]_vars

\* A candle whose scan failed is reported again and is not taken for new.
C26_Witness ==
    /\ gate_op.met = "old"
    /\ gate_op.refused_failed

=============================================================================
